---------------------------- MODULE Spec2Model ----------------------------
(***************************************************************************)
(* Model of the Jira plan generator (src/src/index.js).                    *)
(*                                                                         *)
(* Text is a TLA+ string; a character is a string of length 1.  The        *)
(* string operations of JavaScript the program uses (toLowerCase, trim,    *)
(* split, includes, RegExp test and match, substring) are operators that   *)
(* compute on the characters.                                              *)
(*                                                                         *)
(* Six specifications share the module:                                    *)
(*   SpecGoal  the pure pipeline analyzeGoal -> parseGoalIntoPlan on a     *)
(*             bounded set of goals;                                       *)
(*   SpecDup   the duplicate filter isDuplicate on bounded summaries and   *)
(*             histories;                                                  *)
(*   Spec      the entry points createJiraPlanAction and planGenerator     *)
(*             with createJiraIssues, the storage and the issue tracker,   *)
(*             one step per await;                                         *)
(*   SpecSeq   the same entry points called one after the other, with      *)
(*             goals of one work area at both fan-out tiers;               *)
(*   SpecEst   the estimator (calculateDifficulty, calculateEstimatedTime) *)
(*             on bounded summaries, descriptions and subtask counts;      *)
(*   SpecAdf   the description renderer textToADF on bounded texts.        *)
(***************************************************************************)
EXTENDS Integers, Sequences, FiniteSets, TLC

VARIABLES
    goal,        \* SpecGoal: the goal string under analysis
    analysis,    \* SpecGoal: result of analyzeGoal(goal), or NoValue
    plan,        \* SpecGoal: result of parseGoalIntoPlan(goal, {}), or NoValue
    gpc          \* SpecGoal: "input" -> "analyzed" -> "planned"

VARIABLES
    itemSummary,   \* SpecDup: the candidate, as [pre, body, post]
    createdItems,  \* SpecDup: the history, a sequence of [pre, body, post]
    duplicate,     \* SpecDup: result of isDuplicate, or NoValue
    dpc            \* SpecDup: "input" -> "checked"

VARIABLES
    storage,     \* Forge storage: the values under the two storage keys
    issues,      \* the issues the tracker holds, in creation order
    provenance,  \* the plan-provenance issue properties the tracker holds
    frame,       \* per invocation of an entry point: its locals, the await
                 \* it is suspended at (pc), the external calls it has
                 \* issued (calls) and the value it returned (result)
    sched        \* the invocation that ran last, and the number of times a
                 \* suspended invocation was overtaken by the other one

VARIABLES
    estInput,    \* SpecEst: [summary, description, subtasksCount, type]
    estOutput,   \* SpecEst: [difficulty, estimatedTime], NoValue until set
    epc          \* SpecEst: "input" -> "rated" -> "estimated"

VARIABLES
    adfText,     \* SpecAdf: the text handed to textToADF
    adfDoc,      \* SpecAdf: the document textToADF returned, or NoValue
    apc          \* SpecAdf: "input" -> "converted"

goalVars == <<goal, analysis, plan, gpc>>
dupVars == <<itemSummary, createdItems, duplicate, dpc>>
orchVars == <<storage, issues, provenance, frame, sched>>
estVars == <<estInput, estOutput, epc>>
adfVars == <<adfText, adfDoc, apc>>
vars == <<goalVars, dupVars, orchVars, estVars, adfVars>>

\* JavaScript's undefined / null
NoValue == "<undefined>"

Min(a, b) == IF a <= b THEN a ELSE b
Max(a, b) == IF a >= b THEN a ELSE b

-----------------------------------------------------------------------------
(* Bounds of the model *)

\* filler words appended to a base goal: PadStep * k + x
PadStep == 24
MaxPadSteps == 4
MaxPadExtra == 2
\* filler sentences appended to a base goal
MaxStops == 5
\* entries of the history handed to isDuplicate
MaxHistory == 2
\* how many times a running invocation is overtaken by the other one
MaxPreemptions == 1
\* the largest subtasksCount handed to the estimator in SpecEst
MaxChildCount == 5
\* how many external calls fail in one run
MaxFailures == 1

-----------------------------------------------------------------------------
(* Strings *)

UpperLetters == "ABCDEFGHIJKLMNOPQRSTUVWXYZ"
LowerLetters == "abcdefghijklmnopqrstuvwxyz"

\* the white space of \s and of String.prototype.trim that the inputs use
Whitespace == {" ", "\t", "\n"}

CharAt(s, i) == SubSeq(s, i, i)

RECURSIVE IndexOfChar(_, _, _)
IndexOfChar(c, s, i) ==
    IF i > Len(s) THEN 0
    ELSE IF CharAt(s, i) = c THEN i
    ELSE IndexOfChar(c, s, i + 1)

\* the lower-case letter of every upper-case letter
LowerTable ==
    [c \in {CharAt(UpperLetters, k) : k \in 1..Len(UpperLetters)} |->
        CharAt(LowerLetters, IndexOfChar(c, UpperLetters, 1))]

LowerChar(c) == IF c \in DOMAIN LowerTable THEN LowerTable[c] ELSE c

\* the positions of the upper-case letters of s
UpperPositions(s) == {i \in 1..Len(s) : CharAt(s, i) \in DOMAIN LowerTable}

\* s from position start on, with the letters at the positions ups, all at
\* start or after it, in lower case
RECURSIVE LowerFrom(_, _, _)
LowerFrom(s, start, ups) ==
    IF ups = {} THEN SubSeq(s, start, Len(s))
    ELSE LET i == CHOOSE k \in ups : \A j \in ups : k <= j
         IN  SubSeq(s, start, i - 1) \o LowerTable[CharAt(s, i)]
             \o LowerFrom(s, i + 1, ups \ {i})

\* String.prototype.toLowerCase
toLowerCase(s) == LowerFrom(s, 1, UpperPositions(s))

RECURSIVE FirstNonSpace(_, _)
FirstNonSpace(s, i) ==
    IF i > Len(s) THEN i
    ELSE IF CharAt(s, i) \in Whitespace THEN FirstNonSpace(s, i + 1)
    ELSE i

RECURSIVE LastNonSpace(_, _)
LastNonSpace(s, i) ==
    IF i < 1 THEN i
    ELSE IF CharAt(s, i) \in Whitespace THEN LastNonSpace(s, i - 1)
    ELSE i

\* String.prototype.trim
trim(s) == SubSeq(s, FirstNonSpace(s, 1), LastNonSpace(s, Len(s)))

\* s.substring(i, i + Len(p)) === p, 1-based
MatchesAt(s, i, p) ==
    /\ i >= 1
    /\ i + Len(p) - 1 <= Len(s)
    /\ SubSeq(s, i, i + Len(p) - 1) = p

\* String.prototype.includes
includes(s, p) ==
    LET n == Len(p)
    IN  \E i \in 1..(Len(s) - n + 1) : SubSeq(s, i, i + n - 1) = p

\* the pieces of the characters lo..hi of s between maximal runs of
\* delimiters: the pieces of the two halves, the last piece of the left half
\* continued by the first piece of the right half (both are empty, and are
\* one piece, when a run of delimiters spans the middle)
RECURSIVE SplitRange(_, _, _, _)
SplitRange(s, delims, lo, hi) ==
    IF lo > hi THEN <<"">>
    ELSE IF lo = hi
         THEN IF CharAt(s, lo) \in delims THEN <<"", "">> ELSE <<CharAt(s, lo)>>
         ELSE LET mid == (lo + hi) \div 2
                  left == SplitRange(s, delims, lo, mid)
                  right == SplitRange(s, delims, mid + 1, hi)
                  spans == /\ CharAt(s, mid) \in delims
                           /\ CharAt(s, mid + 1) \in delims
              IN  SubSeq(left, 1, Len(left) - 1)
                  \o (IF spans THEN <<>>
                      ELSE <<left[Len(left)] \o right[1]>>)
                  \o SubSeq(right, 2, Len(right))

\* s.split(/[delims]+/): the pieces between maximal runs of delimiters; a
\* leading or trailing run yields an empty piece, "" yields one empty piece
SplitRuns(s, delims) == SplitRange(s, delims, 1, Len(s))

RECURSIVE Repeat(_, _)
Repeat(s, n) ==
    IF n <= 0 THEN ""
    ELSE IF n = 1 THEN s
    ELSE Repeat(s, n \div 2) \o Repeat(s, n - (n \div 2))

RECURSIVE JoinFrom(_, _, _)
JoinFrom(seq, sep, i) ==
    IF i > Len(seq) THEN ""
    ELSE IF i = Len(seq) THEN seq[i]
    ELSE seq[i] \o sep \o JoinFrom(seq, sep, i + 1)

\* Array.prototype.join
join(seq, sep) == JoinFrom(seq, sep, 1)

RECURSIVE DedupFrom(_, _, _)
DedupFrom(seq, i, acc) ==
    IF i > Len(seq) THEN acc
    ELSE IF \E k \in 1..Len(acc) : acc[k] = seq[i]
         THEN DedupFrom(seq, i + 1, acc)
         ELSE DedupFrom(seq, i + 1, Append(acc, seq[i]))

\* [...new Set(seq)]: first occurrences, in insertion order
Dedup(seq) == DedupFrom(seq, 1, <<>>)

Range(seq) == {seq[i] : i \in 1..Len(seq)}

-----------------------------------------------------------------------------
(* Regular expressions of analyzeGoal: each is a case-insensitive           *)
(* alternation of literals, written here as the sequence of its             *)
(* alternatives in source order (sign[- ]?in is sign-in, sign in, signin).  *)

\* the tests with the one for backend first
AreaOrderBackendFirst ==
    <<"backend", "frontend", "auth", "testing", "deployment", "data",
      "mobile", "documentation">>

AreaOrder ==
    <<"frontend", "backend", "auth", "testing", "deployment", "data",
      "mobile", "documentation">>

AreaPattern ==
    [frontend |-> <<"frontend", "ui", "interface", "design", "user", "ux",
                    "screen", "page", "component", "view", "display">>,
     backend |-> <<"backend", "api", "server", "database", "service",
                   "endpoint", "integration", "logic", "process">>,
     auth |-> <<"auth", "login", "security", "permission", "access",
                "sign-in", "sign in", "signin", "sign-up", "sign up", "signup",
                "password", "session">>,
     testing |-> <<"test", "qa", "quality", "validation", "verification",
                   "coverage">>,
     deployment |-> <<"deploy", "release", "ci/cd", "pipeline", "build",
                      "production", "infrastructure">>,
     data |-> <<"data", "migration", "import", "export", "sync", "transform",
                "etl">>,
     mobile |-> <<"mobile", "ios", "android", "app", "native", "react native",
                  "flutter">>,
     documentation |-> <<"document", "doc", "readme", "guide", "instruction",
                         "manual">>]

\* an alternative of the pattern matches the text at position i, ignoring case
AltMatchesAt(lowered, i, alt) == MatchesAt(lowered, i, alt)

\* pattern.test(text) with the i flag, on the text in lower case (the
\* alternatives are lower-case literals)
RegExpTest(pattern, lowered) ==
    \E k \in 1..Len(pattern) : includes(lowered, pattern[k])

\* the leftmost position at which an alternative matches, 0 when none does
FirstMatchPos(pattern, lowered) ==
    LET hits == {i \in 1..Len(lowered) :
                    \E k \in 1..Len(pattern) :
                        AltMatchesAt(lowered, i, pattern[k])}
    IN  IF hits = {} THEN 0
        ELSE CHOOSE i \in hits : \A j \in hits : i <= j

\* text.match(pattern) for a pattern without the g flag and without groups:
\* null (here <<>>) or an array holding the leftmost match alone; at that
\* position the first alternative in source order wins
StringMatch(text, lowered, pattern) ==
    LET pos == FirstMatchPos(pattern, lowered)
    IN  IF pos = 0 THEN <<>>
        ELSE LET k == CHOOSE k \in 1..Len(pattern) :
                        /\ AltMatchesAt(lowered, pos, pattern[k])
                        /\ \A j \in 1..(k - 1) :
                              ~AltMatchesAt(lowered, pos, pattern[j])
             IN  <<SubSeq(text, pos, pos + Len(pattern[k]) - 1)>>

\* extractKeywords(text, pattern); lowered is the text in lower case
extractKeywords(text, lowered, pattern) ==
    LET matches == StringMatch(text, lowered, pattern)
    IN  IF matches # <<>>
        THEN Dedup([i \in 1..Len(matches) |-> toLowerCase(matches[i])])
        ELSE <<>>

-----------------------------------------------------------------------------
(* analyzeGoal *)

\* goal.split(/\s+/).length
wordCount(g) == Len(SplitRuns(g, Whitespace))

\* goal.split(/[.!?]+/).filter(s => s.trim()).length
sentenceCount(g) ==
    Len(SelectSeq(SplitRuns(g, {".", "!", "?"}), LAMBDA s : trim(s) # ""))

\* the work areas whose pattern matches the goal, in the order of the eight
\* tests; matchText is the text the i flag compares, the goal in lower case
detectedAreas(g, matchText) ==
    LET hit == SelectSeq(AreaOrder,
                         LAMBDA a : RegExpTest(AreaPattern[a], matchText))
    IN  [i \in 1..Len(hit) |->
            [type |-> hit[i],
             keywords |-> extractKeywords(g, matchText, AreaPattern[hit[i]])]]

detectWorkAreasNoFallback(g) == detectedAreas(g, toLowerCase(g))

detectWorkAreasCaseSensitive(g) ==
    LET detected == detectedAreas(g, g)
    IN  IF Len(detected) = 0
        THEN <<[type |-> "implementation", keywords |-> <<>>]>>
        ELSE detected

\* the eight tests of the goal in source order, each pushing its work area,
\* and the implementation fallback when none matched
detectWorkAreas(g) ==
    LET detected == detectedAreas(g, toLowerCase(g))
    IN  IF Len(detected) = 0
        THEN <<[type |-> "implementation", keywords |-> <<>>]>>
        ELSE detected

\* Array.prototype.splice(n) on the work areas: keeps the first n
splice(seq, n) == SubSeq(seq, 1, Min(n, Len(seq)))

capWorkAreasNoHighCap(workAreas) ==
    IF Len(workAreas) >= 4 THEN workAreas
    ELSE IF Len(workAreas) >= 2 THEN splice(workAreas, 2)
    ELSE splice(workAreas, 1)

\* Factor 1, the list: at most 6 entries from 4 detected on, at most 2 from
\* 2 detected on, at most 1 otherwise
capWorkAreas(workAreas) ==
    IF Len(workAreas) >= 4
    THEN IF Len(workAreas) > 6 THEN splice(workAreas, 6) ELSE workAreas
    ELSE IF Len(workAreas) >= 2
         THEN IF Len(workAreas) > 2 THEN splice(workAreas, 2) ELSE workAreas
         ELSE IF Len(workAreas) > 1 THEN splice(workAreas, 1) ELSE workAreas

highComplexityAreas == {"mobile", "backend", "auth", "deployment", "data"}

deriveComplexityWordsGeq(detected, capped, words, sentences) ==
    LET c1 == IF detected >= 4 THEN "high"
              ELSE IF detected >= 2 THEN "medium" ELSE "low"
        c2 == IF words >= 100 THEN "high"
              ELSE IF words > 30 /\ c1 = "low" THEN "medium" ELSE c1
        c3 == IF (\E i \in 1..Len(capped) :
                      capped[i].type \in highComplexityAreas) /\ c2 = "low"
              THEN "medium" ELSE c2
        c4 == IF sentences >= 3 /\ c3 = "low" THEN "medium" ELSE c3
    IN  IF sentences >= 5 THEN "high" ELSE c4

\* the four factors in source order; detected is the number of work areas
\* before the cap, capped the list after it
deriveComplexity(detected, capped, words, sentences) ==
    LET c1 == IF detected >= 4 THEN "high"
              ELSE IF detected >= 2 THEN "medium" ELSE "low"
        c2 == IF words > 100 THEN "high"
              ELSE IF words > 30 /\ c1 = "low" THEN "medium" ELSE c1
        hasHighComplexityArea ==
            \E i \in 1..Len(capped) : capped[i].type \in highComplexityAreas
        c3 == IF hasHighComplexityArea /\ c2 = "low" THEN "medium" ELSE c2
        c4 == IF sentences >= 3 /\ c3 = "low" THEN "medium" ELSE c3
    IN  IF sentences >= 5 THEN "high" ELSE c4

analyzeGoal(g) ==
    LET words == wordCount(g)
        sentences == sentenceCount(g)
        detected == detectWorkAreas(g)
        workAreas == capWorkAreas(detected)
    IN  [workAreas |-> workAreas,
         complexity |->
             deriveComplexity(Len(detected), workAreas, words, sentences),
         wordCount |-> words,
         sentenceCount |-> sentences]

-----------------------------------------------------------------------------
(* Numbers.  The estimator computes in IEEE-754 doubles.  A double x is     *)
(* written [R, C] with x = R/80 + C*w, w = 2^-58/5: R/80 is the decimal     *)
(* value meant and C*w the rounding error carried.  In units of w, x is    *)
(* R*2^54 + C, and a double with exponent p is a multiple of its unit in   *)
(* the last place, 2^(p-52) = 5*2^(p+6) units of w, so that rounding to    *)
(* nearest, ties to even, is arithmetic modulo 5*2^(p+6).                  *)

RECURSIVE Pow2(_)
Pow2(n) == IF n = 0 THEN 1 ELSE 2 * Pow2(n - 1)

\* the exponents of the doubles the estimator meets: 0.1 to 400 * 4
Exponents == -4..12

\* the exponent p with 2^p <= x < 2^(p+1)
Binade(R, C) ==
    CHOOSE p \in Exponents :
        /\ R > 5 * Pow2(p + 4) \/ (R = 5 * Pow2(p + 4) /\ C >= 0)
        /\ ~(R > 5 * Pow2(p + 5) \/ (R = 5 * Pow2(p + 5) /\ C >= 0))

\* 2^n modulo 5
Pow2Mod5(n) == <<1, 2, 4, 3>>[(n % 4) + 1]

\* the double nearest to R/80 + C*w, ties to the even significand
RoundToDouble(R, C) ==
    LET p == Binade(R, C)
        ulp == 5 * Pow2(p + 6)
        base == Pow2(p + 6) * (((R % 5) * Pow2Mod5(48 - p)) % 5)
        rem == (base + C) % ulp
        down == C - rem
        up == down + ulp
    IN  IF 2 * rem < ulp THEN [R |-> R, C |-> down]
        ELSE IF 2 * rem > ulp THEN [R |-> R, C |-> up]
        ELSE IF (down \div Pow2(p + 6)) % 2 = 0 THEN [R |-> R, C |-> down]
        ELSE [R |-> R, C |-> up]

\* the double of a decimal literal given in eightieths (0.1 is 8/80)
Literal(eightieths) == RoundToDouble(eightieths, 0)

\* a + b, a - b and n * a in doubles, n an integer
DoubleAdd(a, b) == RoundToDouble(a.R + b.R, a.C + b.C)

DoubleSub(a, b) == RoundToDouble(a.R - b.R, a.C - b.C)

DoubleTimes(n, a) == RoundToDouble(n * a.R, n * a.C)

\* a * b in doubles, b a double with no rounding error (such as 0.75)
DoubleMul(a, b) ==
    RoundToDouble((a.R * b.R) \div 80, (a.C * b.R) \div 80)

\* x < t, x <= t and x >= t for a threshold t given in eightieths
DoubleLess(x, t) == x.R < t \/ (x.R = t /\ x.C < 0)

DoubleLeq(x, t) == x.R < t \/ (x.R = t /\ x.C <= 0)

DoubleGeq(x, t) == ~DoubleLess(x, t)

\* Math.ceil(x / k) for an integer k >= 1: the quotient of a double by k is
\* an integer only when x is k times that integer exactly
CeilDiv(x, k) ==
    IF x.R % (80 * k) = 0
    THEN (x.R \div (80 * k)) + (IF x.C > 0 THEN 1 ELSE 0)
    ELSE (x.R \div (80 * k)) + 1

\* Math.ceil(n / k) for integers
CeilQuotient(n, k) == (n + k - 1) \div k

-----------------------------------------------------------------------------
(* calculateDifficulty, calculateEstimatedTime, formatEstimatedTime *)

complexityIndicators ==
    <<"integration", "migration", "refactor", "architecture", "security",
      "authentication", "deployment", "database">>

\* the number of indicators the text includes
complexityScore(text) ==
    Cardinality({k \in DOMAIN complexityIndicators :
                    includes(text, complexityIndicators[k])})

\* Hard needs more than four subtasks
calculateDifficultyAboveFour(summary, description, subtasksCount) ==
    LET score == complexityScore(toLowerCase(summary \o " " \o description))
    IN  IF subtasksCount > 4 \/ score >= 3 THEN "Hard"
        ELSE IF subtasksCount >= 2 \/ score >= 1 THEN "Medium"
        ELSE "Easy"

calculateDifficulty(summary, description, subtasksCount) ==
    LET score == complexityScore(toLowerCase(summary \o " " \o description))
    IN  IF subtasksCount >= 4 \/ score >= 3 THEN "Hard"
        ELSE IF subtasksCount >= 2 \/ score >= 1 THEN "Medium"
        ELSE "Easy"

\* const factors = {...}, text being lower-cased already
factors(text) ==
    [migration |-> includes(text, "migration") \/ includes(text, "migrate"),
     refactor |-> includes(text, "refactor") \/ includes(text, "restructure"),
     integration |-> \/ includes(text, "integration")
                     \/ includes(text, "integrate")
                     \/ includes(text, "third-party"),
     architecture |-> \/ includes(text, "architecture")
                      \/ includes(text, "design system"),
     database |-> \/ includes(text, "database")
                  \/ includes(text, "schema")
                  \/ includes(text, "data model"),
     security |-> \/ includes(text, "security")
                  \/ includes(text, "authentication")
                  \/ includes(text, "authorization"),
     deployment |-> \/ includes(text, "deployment")
                    \/ includes(text, "ci/cd")
                    \/ includes(text, "pipeline"),
     testing |-> \/ includes(text, "testing")
                 \/ includes(text, "qa")
                 \/ includes(text, "test coverage"),
     api |-> includes(text, "api") \/ includes(text, "endpoint"),
     ui |-> \/ includes(text, "ui")
            \/ includes(text, "interface")
            \/ includes(text, "component"),
     documentation |-> \/ includes(text, "document")
                       \/ includes(text, "guide")
                       \/ includes(text, "readme"),
     bugfix |-> includes(text, "fix") \/ includes(text, "bug"),
     update |-> includes(text, "update") /\ ~includes(text, "major"),
     configure |-> includes(text, "configure") \/ includes(text, "config"),
     research |-> includes(text, "research") \/ includes(text, "investigate")]

\* complexityMultiplier += increment when the condition holds
AddWhen(condition, multiplier, increment) ==
    IF condition THEN DoubleAdd(multiplier, increment) ELSE multiplier

\* let complexityMultiplier = 1, and the adjustments in source order
complexityMultiplier(f, difficulty, subtasksCount) ==
    LET m1 == AddWhen(f.migration \/ f.refactor \/ f.architecture,
                      Literal(80), Literal(40))
        m2 == AddWhen(f.integration \/ f.database \/ f.security,
                      m1, Literal(32))
        m3 == AddWhen(f.deployment \/ f.testing, m2, Literal(24))
        m4 == AddWhen(f.api \/ f.ui, m3, Literal(16))
        m5 == AddWhen(f.documentation, m4, Literal(8))
        m6 == IF f.bugfix /\ difficulty = "Easy"
              THEN DoubleSub(m5, Literal(16)) ELSE m5
        m7 == AddWhen(f.research, m6, Literal(12))
    IN  AddWhen(subtasksCount > 0, m7, DoubleTimes(subtasksCount, Literal(8)))

\* baseHours, in eightieths of an hour
baseHours(type, difficulty) ==
    IF type = "epic"
    THEN IF difficulty = "Easy" THEN 80 * 80
         ELSE IF difficulty = "Medium" THEN 200 * 80
         ELSE 400 * 80
    ELSE IF type = "story"
    THEN IF difficulty = "Easy" THEN 3 * 80
         ELSE IF difficulty = "Medium" THEN 12 * 80
         ELSE 28 * 80
    ELSE IF difficulty = "Easy" THEN 60
         ELSE IF difficulty = "Medium" THEN 3 * 80
         ELSE 6 * 80

\* `${Math.ceil(hours * 2) / 2}`
HalvesToString(halves) ==
    IF halves % 2 = 0 THEN ToString(halves \div 2)
    ELSE ToString(halves \div 2) \o ".5"

\* stories always in hours
formatEstimatedTimeInHours(hours, type) ==
    ToString(CeilDiv(hours, 1)) \o " hours"

formatEstimatedTime(hours, type) ==
    IF type = "epic"
    THEN LET weeks == CeilDiv(hours, 40)
         IN  IF weeks = 1 THEN "1 week"
             ELSE IF weeks <= 2 THEN "1-2 weeks"
             ELSE IF weeks <= 4 THEN "2-4 weeks"
             ELSE IF weeks <= 6 THEN "4-6 weeks"
             ELSE IF weeks <= 8 THEN "6-8 weeks"
             ELSE IF weeks <= 12 THEN "8-12 weeks"
             ELSE ToString(weeks) \o " weeks"
    ELSE IF type = "story"
    THEN IF DoubleLess(hours, 80)
         THEN ToString(CeilDiv(DoubleTimes(60, hours), 1)) \o " minutes"
         ELSE IF DoubleLeq(hours, 4 * 80)
         THEN ToString(CeilDiv(hours, 1)) \o " hours"
         ELSE IF DoubleLeq(hours, 8 * 80)
         THEN ToString(CeilDiv(hours, 1)) \o " hours (1 day)"
         ELSE LET days == CeilDiv(hours, 8)
                  weeks == CeilQuotient(days, 5)
              IN  IF days <= 5 THEN ToString(days) \o " days"
                  ELSE ToString(weeks) \o " week"
                       \o (IF weeks > 1 THEN "s" ELSE "")
    ELSE IF DoubleLess(hours, 80)
         THEN ToString(CeilDiv(DoubleTimes(60, hours), 1)) \o " minutes"
         ELSE IF DoubleLess(hours, 2 * 80)
         THEN HalvesToString(CeilDiv(DoubleTimes(2, hours), 1)) \o " hour"
              \o (IF DoubleGeq(hours, 120) THEN "s" ELSE "")
         ELSE IF DoubleLeq(hours, 8 * 80)
         THEN ToString(CeilDiv(hours, 1)) \o " hours"
         ELSE ToString(CeilDiv(hours, 1)) \o " hours (more than 1 day)"

\* const estimatedHours = baseHours * complexityMultiplier
estimatedHours(difficulty, type, summary, description, subtasksCount) ==
    DoubleMul(complexityMultiplier(
                  factors(toLowerCase(summary \o " " \o description)),
                  difficulty, subtasksCount),
              [R |-> baseHours(type, difficulty), C |-> 0])

calculateEstimatedTime(difficulty, type, summary, description, subtasksCount) ==
    formatEstimatedTime(
        estimatedHours(difficulty, type, summary, description, subtasksCount),
        type)

-----------------------------------------------------------------------------
(* The phase catalog and the plan expander *)

StoryPhases ==
    [frontend |->
       <<[action |-> "Design UI/UX", focus |-> "wireframes and mockups"],
         [action |-> "Build component library", focus |-> "reusable UI elements"],
         [action |-> "Implement layouts", focus |-> "page structure and routing"],
         [action |-> "Add state management", focus |-> "data flow and logic"],
         [action |-> "Implement user interactions", focus |-> "events and feedback"],
         [action |-> "Add responsive design", focus |-> "mobile and tablet support"],
         [action |-> "Optimize performance", focus |-> "loading and rendering"],
         [action |-> "Add accessibility features", focus |-> "WCAG compliance"]>>,
     backend |->
       <<[action |-> "Design API architecture", focus |-> "endpoints and data models"],
         [action |-> "Set up database", focus |-> "schema and migrations"],
         [action |-> "Implement core endpoints", focus |-> "CRUD operations"],
         [action |-> "Add business logic", focus |-> "processing and validation"],
         [action |-> "Implement error handling", focus |-> "logging and monitoring"],
         [action |-> "Add API documentation", focus |-> "OpenAPI/Swagger specs"],
         [action |-> "Implement caching", focus |-> "performance optimization"],
         [action |-> "Add rate limiting", focus |-> "security and throttling"]>>,
     auth |->
       <<[action |-> "Design auth architecture", focus |-> "authentication strategy"],
         [action |-> "Implement registration", focus |-> "user signup flow"],
         [action |-> "Implement login", focus |-> "authentication flow"],
         [action |-> "Add authorization", focus |-> "role-based access control"],
         [action |-> "Implement session management", focus |-> "tokens and refresh"],
         [action |-> "Add security features", focus |-> "2FA and password reset"],
         [action |-> "Add OAuth integration", focus |-> "third-party auth"],
         [action |-> "Implement audit logging", focus |-> "security tracking"]>>,
     testing |->
       <<[action |-> "Set up testing infrastructure", focus |-> "testing framework"],
         [action |-> "Write unit tests", focus |-> "component and function tests"],
         [action |-> "Write integration tests", focus |-> "API and workflow tests"],
         [action |-> "Add end-to-end tests", focus |-> "user journey testing"],
         [action |-> "Perform QA testing", focus |-> "manual testing and fixes"],
         [action |-> "Set up test automation", focus |-> "CI/CD integration"],
         [action |-> "Add performance tests", focus |-> "load and stress testing"],
         [action |-> "Conduct security testing", focus |-> "vulnerability assessment"]>>,
     deployment |->
       <<[action |-> "Design deployment strategy", focus |-> "environment planning"],
         [action |-> "Set up CI/CD pipeline", focus |-> "automated builds and tests"],
         [action |-> "Configure staging environment", focus |-> "pre-production setup"],
         [action |-> "Configure production environment", focus |-> "production setup"],
         [action |-> "Implement monitoring", focus |-> "logging and alerts"],
         [action |-> "Deploy to production", focus |-> "release and verification"],
         [action |-> "Set up rollback procedures", focus |-> "disaster recovery"],
         [action |-> "Configure auto-scaling", focus |-> "performance and reliability"]>>,
     data |->
       <<[action |-> "Design data architecture", focus |-> "schema and models"],
         [action |-> "Set up data pipeline", focus |-> "ETL and processing"],
         [action |-> "Implement data operations", focus |-> "migration and sync"],
         [action |-> "Add data validation", focus |-> "quality and integrity"],
         [action |-> "Implement data backup", focus |-> "recovery and retention"],
         [action |-> "Validate and test data", focus |-> "testing and verification"],
         [action |-> "Add data governance", focus |-> "compliance and policies"],
         [action |-> "Optimize data queries", focus |-> "performance tuning"]>>,
     mobile |->
       <<[action |-> "Set up mobile project", focus |-> "framework and structure"],
         [action |-> "Design mobile UI", focus |-> "screens and navigation"],
         [action |-> "Build core screens", focus |-> "main user interfaces"],
         [action |-> "Add platform features", focus |-> "iOS and Android specifics"],
         [action |-> "Implement offline support", focus |-> "local storage and sync"],
         [action |-> "Test on devices", focus |-> "device testing and optimization"],
         [action |-> "Add push notifications", focus |-> "user engagement"],
         [action |-> "Optimize app performance", focus |-> "battery and memory"]>>,
     documentation |->
       <<[action |-> "Write architecture docs", focus |-> "system design and overview"],
         [action |-> "Write API documentation", focus |-> "endpoint reference"],
         [action |-> "Create user guides", focus |-> "end-user documentation"],
         [action |-> "Write developer guides", focus |-> "setup and contribution"],
         [action |-> "Add code examples", focus |-> "tutorials and samples"],
         [action |-> "Create troubleshooting guide", focus |-> "common issues and solutions"],
         [action |-> "Add release notes", focus |-> "changelog and updates"],
         [action |-> "Document deployment process", focus |-> "operations guide"]>>,
     implementation |->
       <<[action |-> "Analyze requirements", focus |-> "gather and document needs"],
         [action |-> "Design solution", focus |-> "architecture and approach"],
         [action |-> "Implement core functionality", focus |-> "main features"],
         [action |-> "Add supporting features", focus |-> "auxiliary functionality"],
         [action |-> "Test and refine", focus |-> "quality assurance"],
         [action |-> "Document and deploy", focus |-> "finalization"],
         [action |-> "Gather feedback", focus |-> "user acceptance"],
         [action |-> "Iterate and improve", focus |-> "enhancements"]>>]

\* phases[type] || phases.implementation
getStoryPhases(type) ==
    IF type \in DOMAIN StoryPhases THEN StoryPhases[type]
    ELSE StoryPhases["implementation"]

AreaNames ==
    [frontend |-> "Frontend Development",
     backend |-> "Backend Development",
     auth |-> "Authentication & Security",
     testing |-> "Testing & Quality Assurance",
     deployment |-> "Deployment & DevOps",
     data |-> "Data Management",
     mobile |-> "Mobile Development",
     documentation |-> "Documentation",
     implementation |-> "Implementation"]

\* names[type] || 'Implementation'
capitalizeWorkArea(type) ==
    IF type \in DOMAIN AreaNames THEN AreaNames[type] ELSE "Implementation"

truncateText(text, maxLength) ==
    IF Len(text) <= maxLength THEN text
    ELSE SubSeq(text, 1, maxLength - 3) \o "..."

generateStorySummary(phase) == phase.action \o ": " \o phase.focus

generateStoryDescription(phase) ==
    phase.action \o " for the project, focusing on " \o phase.focus \o "."

generateAcceptanceCriteria(given, when, then) ==
    "GIVEN " \o given \o "\nWHEN " \o when \o "\nTHEN " \o then

\* the subtask templates of a phase, in source order
\* templates of which the third is the second in another spelling
subtaskTemplatesDesignTwice(phase) ==
    <<[summary |-> "Research and plan " \o phase.focus],
      [summary |-> "Design " \o phase.focus],
      [summary |-> " DESIGN " \o phase.focus],
      [summary |-> "Test " \o phase.focus],
      [summary |-> "Document " \o phase.focus],
      [summary |-> "Review and refine " \o phase.focus],
      [summary |-> "Deploy " \o phase.focus]>>

subtaskTemplates(phase) ==
    <<[summary |-> "Research and plan " \o phase.focus],
      [summary |-> "Design " \o phase.focus],
      [summary |-> "Implement " \o phase.focus],
      [summary |-> "Test " \o phase.focus],
      [summary |-> "Document " \o phase.focus],
      [summary |-> "Review and refine " \o phase.focus],
      [summary |-> "Deploy " \o phase.focus]>>

subtaskCountAllThree(complexity) == 3

\* the fixed subtask count of a complexity tier
subtaskCountFor(complexity) ==
    IF complexity = "high" THEN 5
    ELSE IF complexity = "medium" THEN 3
    ELSE 3

storyCountAllThree(complexity) == 3

\* the fixed story count of a complexity tier
storyCountFor(complexity) ==
    IF complexity = "high" THEN 6
    ELSE IF complexity = "medium" THEN 3
    ELSE 3

generateSubtasksForStory(phase, type, g, an) ==
    LET templates == subtaskTemplates(phase)
        subtaskCount == subtaskCountFor(an.complexity)
    IN  SubSeq(templates, 1, Min(subtaskCount, Len(templates)))

\* difficulty and estimatedTime of a node
withEstimatedTime(difficulty, type, summary, description, subtasksCount) ==
    [difficulty |-> difficulty,
     estimatedTime |->
         calculateEstimatedTime(difficulty, type, summary, description,
                                subtasksCount)]

rateNode(type, summary, description, subtasksCount) ==
    withEstimatedTime(calculateDifficulty(summary, description, subtasksCount),
                      type, summary, description, subtasksCount)

\* subtasks.forEach: the subtasks from the k-th on with their difficulty and
\* estimated time (const subtaskText = subtask.description || '')
RECURSIVE ratedSubtasks(_, _)
ratedSubtasks(subtasks, k) ==
    IF k > Len(subtasks) THEN <<>>
    ELSE <<[summary |-> subtasks[k].summary]
           @@ rateNode("subtask", subtasks[k].summary, "", 0)>>
         \o ratedSubtasks(subtasks, k + 1)

\* stories.push({...}) with story.difficulty and story.estimatedTime set
ratedStory(phase, summary, description, subtasks) ==
    [summary |-> summary,
     description |-> description,
     acceptanceCriteria |->
         generateAcceptanceCriteria(phase.action \o " is complete",
                                    "all requirements are met",
                                    "code is reviewed and tested"),
     subtasks |-> ratedSubtasks(subtasks, 1)]
    @@ rateNode("story", summary, description, Len(subtasks))

\* the body of storyPhases.forEach: the story of a phase with its difficulty,
\* its estimated time and its rated subtasks
storyOfPhase(phase, type, g, an) ==
    ratedStory(phase, generateStorySummary(phase),
               generateStoryDescription(phase),
               generateSubtasksForStory(phase, type, g, an))

\* storyOfPhase reads the complexity of the analysis and nothing else of the
\* analysis or the goal, so the stories of the catalog are computed once per
\* complexity and looked up afterwards
ComplexityTiers == <<"low", "medium", "high">>

CatalogTypes == AreaOrder \o <<"implementation">>

PositionIn(seq, x) == CHOOSE k \in 1..Len(seq) : seq[k] = x

\* the story of a phase for the c-th complexity and the ones after it
RECURSIVE StoriesPerComplexity(_, _, _)
StoriesPerComplexity(phase, type, c) ==
    IF c > Len(ComplexityTiers) THEN <<>>
    ELSE <<storyOfPhase(phase, type, "", [complexity |-> ComplexityTiers[c]])>>
         \o StoriesPerComplexity(phase, type, c + 1)

\* the stories of the i-th phase of a type and of the phases after it
RECURSIVE CatalogStoriesFrom(_, _)
CatalogStoriesFrom(type, i) ==
    IF i > Len(StoryPhases[type]) THEN <<>>
    ELSE <<StoriesPerComplexity(StoryPhases[type][i], type, 1)>>
         \o CatalogStoriesFrom(type, i + 1)

RECURSIVE CatalogStoriesOfTypes(_)
CatalogStoriesOfTypes(t) ==
    IF t > Len(CatalogTypes) THEN <<>>
    ELSE <<CatalogStoriesFrom(CatalogTypes[t], 1)>>
         \o CatalogStoriesOfTypes(t + 1)

\* the stories by type, phase and complexity
CatalogStories == CatalogStoriesOfTypes(1)

generateStoriesForWorkArea(type, g, keywords, an) ==
    LET catalog == IF type \in DOMAIN StoryPhases THEN type
                   ELSE "implementation"
        availablePhases == getStoryPhases(type)
        storyCount == storyCountFor(an.complexity)
    IN  [i \in 1..Min(storyCount, Len(availablePhases)) |->
            CatalogStories[PositionIn(CatalogTypes, catalog)][i]
                          [PositionIn(ComplexityTiers, an.complexity)]]

\* the epic of a work area with its stories, difficulty and estimated time
ratedEpic(workArea, g, contextLabels, epicName, stories) ==
    [name |-> epicName,
     summary |-> epicName \o ": " \o truncateText(g, 60),
     description |->
         epicName \o " work for:\n\n" \o g \o "\n\nDetected focus areas: "
         \o (IF join(workArea.keywords, ", ") # ""
             THEN join(workArea.keywords, ", ")
             ELSE "general implementation"),
     labels |-> <<workArea.type>> \o contextLabels,
     stories |-> stories]
    @@ rateNode("epic", epicName, g, Len(stories))

\* contextLabels is context.labels || []
generateEpicForWorkArea(workArea, g, an, contextLabels) ==
    ratedEpic(workArea, g, contextLabels, capitalizeWorkArea(workArea.type),
              generateStoriesForWorkArea(workArea.type, g, workArea.keywords,
                                         an))

\* analysis.workAreas.forEach: one epic per work area, in order
generateEpics(an, g, contextLabels) ==
    [epics |->
        [i \in 1..Len(an.workAreas) |->
            generateEpicForWorkArea(an.workAreas[i], g, an, contextLabels)]]

parseGoalIntoPlan(g, contextLabels) ==
    generateEpics(analyzeGoal(g), g, contextLabels)

\* number of stories and of subtasks of a plan
RECURSIVE SumSeq(_, _)
SumSeq(seq, i) == IF i > Len(seq) THEN 0 ELSE seq[i] + SumSeq(seq, i + 1)

StoryTotal(pl) ==
    SumSeq([e \in 1..Len(pl.epics) |-> Len(pl.epics[e].stories)], 1)

SubtaskTotal(pl) ==
    SumSeq([e \in 1..Len(pl.epics) |->
               SumSeq([s \in 1..Len(pl.epics[e].stories) |->
                          Len(pl.epics[e].stories[s].subtasks)], 1)], 1)

-----------------------------------------------------------------------------
(* SpecGoal: the pure pipeline on a bounded set of goals *)

BaseGoals ==
    {"",
     "Build me a payment system",
     "Fix typo",
     "api and Database",
     "frontend backend authentication deployment",
     "Add a test",
     "UI design, API server and QA",
     "  Sign-In  screen ",
     "mobile app with api, login, tests, deploy pipeline, data sync and docs for users",
     "Ship it. Now! Really? Yes. Go.",
     "Refactor\nthe parser",
     "Use the API for the Api"}

PadCounts ==
    {PadStep * k + x : k \in 0..MaxPadSteps, x \in 0..MaxPadExtra}

\* a base goal followed by pad filler words and stops filler sentences
MakeGoal(base, pad, stops) ==
    base \o Repeat(" w", pad) \o Repeat(" w.", stops)

Goals ==
    {MakeGoal(b, p, s) : b \in BaseGoals, p \in PadCounts, s \in 0..MaxStops}

Invocations == {1, 2}

\* an invocation that has not been called
IdleFrame ==
    [pc |-> "idle", entryPoint |-> NoValue, payload |-> NoValue,
     plan |-> NoValue, chatHistory |-> NoValue, createdIssues |-> NoValue,
     issueTypes |-> NoValue, calls |-> <<>>, result |-> NoValue]

\* under each storage key: <<>> when the key is unset, else <<value>>
EmptyStorage == [history |-> <<>>, chatId |-> <<>>]

\* which invocation ran last, and how often a running one was overtaken
NoSchedule == [last |-> 0, preemptions |-> 0]

OrchIdle ==
    /\ storage = EmptyStorage
    /\ issues = <<>>
    /\ provenance = <<>>
    /\ frame = [i \in Invocations |-> [IdleFrame EXCEPT !.pc = "off"]]
    /\ sched = NoSchedule

GoalIdle ==
    /\ goal = ""
    /\ analysis = NoValue
    /\ plan = NoValue
    /\ gpc = "off"

DupIdle ==
    /\ itemSummary = NoValue
    /\ createdItems = <<>>
    /\ duplicate = NoValue
    /\ dpc = "off"

EstIdle ==
    /\ estInput = NoValue
    /\ estOutput = NoValue
    /\ epc = "off"

AdfIdle ==
    /\ adfText = ""
    /\ adfDoc = NoValue
    /\ apc = "off"

InitGoal ==
    /\ goal \in Goals
    /\ analysis = NoValue
    /\ plan = NoValue
    /\ gpc = "input"
    /\ DupIdle
    /\ OrchIdle
    /\ EstIdle
    /\ AdfIdle

\* parseGoalIntoPlan, first half: const analysis = analyzeGoal(goal)
AnalyzeGoal ==
    /\ gpc = "input"
    /\ analysis' = analyzeGoal(goal)
    /\ gpc' = "analyzed"
    /\ UNCHANGED <<goal, plan, dupVars, orchVars, estVars, adfVars>>

\* parseGoalIntoPlan, second half: the epics of the analysis
ParseGoalIntoPlan ==
    /\ gpc = "analyzed"
    /\ plan' = generateEpics(analysis, goal, <<>>)
    /\ gpc' = "planned"
    /\ UNCHANGED <<goal, analysis, dupVars, orchVars, estVars, adfVars>>

NextGoal == AnalyzeGoal \/ ParseGoalIntoPlan

SpecGoal == InitGoal /\ [][NextGoal]_vars

-----------------------------------------------------------------------------
(* SpecEst: calculateDifficulty and calculateEstimatedTime on summaries     *)
(* made of "Implement" and a choice of terms, two descriptions, the three   *)
(* node types and bounded child counts                                      *)

EstTerms ==
    <<"authentication", "and database", "migration", "Integration tests",
      "fix", "API", "research">>

\* the chosen terms, in the order of EstTerms
RECURSIVE ChosenTerms(_, _)
ChosenTerms(chosen, k) ==
    IF k > Len(EstTerms) THEN <<>>
    ELSE (IF k \in chosen THEN <<EstTerms[k]>> ELSE <<>>)
         \o ChosenTerms(chosen, k + 1)

EstSummaries ==
    {join(<<"Implement">> \o ChosenTerms(chosen, 1), " ") :
        chosen \in SUBSET DOMAIN EstTerms}

EstDescriptions == {"", "Security review of the deployment."}

EstInputs ==
    [summary : EstSummaries, description : EstDescriptions,
     subtasksCount : 0..MaxChildCount, type : {"epic", "story", "subtask"}]

InitEst ==
    /\ estInput \in EstInputs
    /\ estOutput = NoValue
    /\ epc = "input"
    /\ GoalIdle
    /\ DupIdle
    /\ OrchIdle
    /\ AdfIdle

CalculateDifficulty ==
    /\ epc = "input"
    /\ estOutput' =
           [difficulty |->
                calculateDifficulty(estInput.summary, estInput.description,
                                    estInput.subtasksCount),
            estimatedTime |-> NoValue]
    /\ epc' = "rated"
    /\ UNCHANGED <<estInput, goalVars, dupVars, orchVars, adfVars>>

CalculateEstimatedTime ==
    /\ epc = "rated"
    /\ estOutput' =
           [estOutput EXCEPT !.estimatedTime =
                calculateEstimatedTime(estOutput.difficulty, estInput.type,
                                       estInput.summary, estInput.description,
                                       estInput.subtasksCount)]
    /\ epc' = "estimated"
    /\ UNCHANGED <<estInput, goalVars, dupVars, orchVars, adfVars>>

NextEst == CalculateDifficulty \/ CalculateEstimatedTime

SpecEst == InitEst /\ [][NextEst]_vars

-----------------------------------------------------------------------------
(* The description renderer *)

Newline == "\n"

\* text.split('\n'): the pieces between the newline characters, from i on
RECURSIVE splitLines(_, _, _)
splitLines(text, start, i) ==
    IF i > Len(text) THEN <<SubSeq(text, start, Len(text))>>
    ELSE IF CharAt(text, i) = Newline
    THEN <<SubSeq(text, start, i - 1)>> \o splitLines(text, i + 1, i + 1)
    ELSE splitLines(text, start, i + 1)

startsWith(s, p) == MatchesAt(s, 1, p)

endsWith(s, p) == Len(s) >= Len(p) /\ MatchesAt(s, Len(s) - Len(p) + 1, p)

\* the block textToADF pushes for one line
paragraphOf(line) ==
    IF trim(line) = ""
    THEN [type |-> "paragraph", content |-> <<>>]
    ELSE IF startsWith(line, "//")
    THEN [type |-> "paragraph",
          content |-> <<[type |-> "text", text |-> line,
                         marks |-> <<[type |-> "code"]>>]>>]
    ELSE IF startsWith(line, "*") /\ endsWith(line, "*") /\ Len(line) > 2
    THEN [type |-> "paragraph",
          content |-> <<[type |-> "text",
                         text |-> SubSeq(line, 2, Len(line) - 1),
                         marks |-> <<[type |-> "strong"]>>]>>]
    ELSE [type |-> "paragraph",
          content |-> <<[type |-> "text", text |-> line]>>]

\* a renderer that pushes nothing for a line with nothing on it
textToADFWithoutBlankLines(text) ==
    LET lines == SelectSeq(splitLines(text, 1, 1),
                           LAMBDA line : trim(line) # "")
    IN  [type |-> "doc", version |-> 1,
         content |-> [k \in 1..Len(lines) |-> paragraphOf(lines[k])]]

textToADF(text) ==
    LET lines == splitLines(text, 1, 1)
    IN  [type |-> "doc", version |-> 1,
         content |-> [k \in 1..Len(lines) |-> paragraphOf(lines[k])]]

\* the texts rendered: every string of at most MaxTextLen of these characters
AdfAlphabet == {"a", " ", Newline, "*", "/"}

MaxTextLen == 5

RECURSIVE TextsUpTo(_)
TextsUpTo(n) ==
    IF n = 0 THEN {""}
    ELSE {""} \cup {c \o t : c \in AdfAlphabet, t \in TextsUpTo(n - 1)}

InitAdf ==
    /\ adfText \in TextsUpTo(MaxTextLen)
    /\ adfDoc = NoValue
    /\ apc = "input"
    /\ GoalIdle
    /\ DupIdle
    /\ OrchIdle
    /\ EstIdle

TextToADF ==
    /\ apc = "input"
    /\ adfDoc' = textToADF(adfText)
    /\ apc' = "rendered"
    /\ UNCHANGED <<adfText, goalVars, dupVars, orchVars, estVars>>

NextAdf == TextToADF

SpecAdf == InitAdf /\ [][NextAdf]_vars

-----------------------------------------------------------------------------
(* The duplicate filter *)

isDuplicateNoTrim(summary, items) ==
    LET normalizedSummary == toLowerCase(summary)
    IN  \E k \in 1..Len(items) :
            toLowerCase(items[k].summary) = normalizedSummary

isDuplicate(summary, items) ==
    LET normalizedSummary == trim(toLowerCase(summary))
    IN  \E k \in 1..Len(items) :
            trim(toLowerCase(items[k].summary)) = normalizedSummary

(* SpecDup: isDuplicate on summaries written as leading white space, a body *)
(* without white space at either end, and trailing white space             *)

SummaryBodies ==
    {"Implement CRUD operations",
     "implement CRUD OPERATIONS",
     "Implement CRUD operation",
     "Implement  CRUD operations",
     "Design CRUD operations"}

LeadingSpace == {"", "  ", "\t"}
TrailingSpace == {"", " ", "\n"}

SummaryText(parts) == parts.pre \o parts.body \o parts.post

Candidates ==
    [pre : LeadingSpace, body : SummaryBodies, post : TrailingSpace]

\* what earlier invocations recorded: summaries of created issues
HistoryItems ==
    [pre : {"", " "}, body : SummaryBodies \ {"implement CRUD OPERATIONS"},
     post : {""}]

SeqsUpTo(S, n) == UNION {[1..k -> S] : k \in 0..n}

InitDup ==
    /\ itemSummary \in Candidates
    /\ createdItems \in SeqsUpTo(HistoryItems, MaxHistory)
    /\ duplicate = NoValue
    /\ dpc = "input"
    /\ GoalIdle
    /\ OrchIdle
    /\ EstIdle
    /\ AdfIdle

CheckDuplicate ==
    /\ dpc = "input"
    /\ duplicate' =
           isDuplicate(SummaryText(itemSummary),
                       [k \in 1..Len(createdItems) |->
                           [summary |-> SummaryText(createdItems[k])]])
    /\ dpc' = "checked"
    /\ UNCHANGED <<itemSummary, createdItems, goalVars, orchVars, estVars, adfVars>>

NextDup == CheckDuplicate

SpecDup == InitDup /\ [][NextDup]_vars

-----------------------------------------------------------------------------
(* The entry points, createJiraIssues, the storage and the issue tracker.   *)
(* An action is the resumption of an invocation at the await it is          *)
(* suspended at: the awaited call completes (the service acts), and the     *)
(* invocation runs on to its next await, where it issues its next call, or  *)
(* to its return.                                                           *)

CHAT_HISTORY_KEY == "chat-history"
CURRENT_CHAT_ID_KEY == "current-chat-id"

\* !x for a string or a missing value
Falsy(x) == x = NoValue \/ x = ""

Last(seq) == seq[Len(seq)]

EmptyHistory ==
    [createdEpics |-> <<>>, createdStories |-> <<>>, createdSubtasks |-> <<>>]

\* a read that answers with an empty history whatever is stored
getChatHistoryFresh(stored) == EmptyHistory

\* getChatHistory once storage.get has answered; stored is <<>> when the key
\* is unset, else <<value>>
getChatHistory(stored) == IF stored = <<>> THEN EmptyHistory ELSE stored[1]

\* what a failing call reports: the text of a response that is not ok, the
\* message of a rejected storage call
ErrorTexts == {"permission denied", "rate limited"}

Outcomes ==
    {[ok |-> TRUE, error |-> NoValue]}
        \cup {[ok |-> FALSE, error |-> t] : t \in ErrorTexts}

\* the issue types the project is configured with
ProjectIssueTypes ==
    <<[name |-> "Epic", subtask |-> FALSE],
      [name |-> "Bug", subtask |-> FALSE],
      [name |-> "Story", subtask |-> FALSE],
      [name |-> "Sub-task", subtask |-> TRUE]>>

\* defaults that repeat the names of the project's own types
DefaultIssueTypesOfProject ==
    [epic |-> "Epic", story |-> "Story", subtask |-> "Sub-task"]

\* the names getProjectIssueTypes falls back to
DefaultIssueTypes == [epic |-> "Epic", story |-> "Task", subtask |-> "Subtask"]

\* issueTypes.find(test)?.name || fallback, hits being the types that pass
\* the test
FindName(hits, fallback) == IF hits = <<>> THEN fallback ELSE hits[1].name

IsEpicType(t) == toLowerCase(t.name) = "epic"

IsStoryType(t) == toLowerCase(t.name) \in {"story", "task", "user story"}

IsSubtaskType(t) ==
    t.subtask \/ toLowerCase(t.name) \in {"subtask", "sub-task"}

\* getProjectIssueTypes when the project request succeeded
resolveIssueTypes(types) ==
    [epic |-> FindName(SelectSeq(types, IsEpicType), "Epic"),
     story |-> FindName(SelectSeq(types, IsStoryType), "Task"),
     subtask |-> FindName(SelectSeq(types, IsSubtaskType), "Subtask")]

\* an external call as issued: its status is "pending" until it completes
Call(op, target, node, summary, issuetype, parent, labels) ==
    [op |-> op, target |-> target, node |-> node, summary |-> summary,
     issuetype |-> issuetype, parent |-> parent, labels |-> labels,
     status |-> "pending", key |-> NoValue, error |-> NoValue]

StorageCall(op, key) == Call(op, key, <<0, 0, 0>>, "", NoValue, NoValue, <<>>)

\* the invocation issues a call and is suspended at its await
IssueCall(f, call, nextPc) ==
    [f EXCEPT !.calls = Append(@, call), !.pc = nextPc]

\* the pending call of the invocation completes
Complete(f, out, key) ==
    [f EXCEPT !.calls[Len(f.calls)] =
        [@ EXCEPT !.status = IF out.ok THEN "ok" ELSE "failed",
                  !.key = key, !.error = out.error]]

Return(f, value) == [f EXCEPT !.result = value, !.pc = "done"]

\* context.labels || [] of the context the entry point hands on
contextLabels(f) ==
    IF f.entryPoint = "action" THEN <<>> ELSE f.payload.context.labels

\* a catch block that answers as if the plan had been created
catchErrorAsSuccess(f, message) ==
    IF f.entryPoint = "action"
    THEN Return(f, [success |-> TRUE, message |-> message, error |-> message])
    ELSE Return(f, [statusCode |-> 200,
                    body |-> [error |-> "Failed to generate plan",
                              details |-> message]])

\* a catch block that writes the history as it stands before it answers
catchErrorSavingHistory(f, message) ==
    IF f.pc \in {"epicWait", "storyWait", "subtaskWait"}
    THEN IssueCall(f, StorageCall("storage.set", CHAT_HISTORY_KEY), "save")
    ELSE Return(f, [success |-> FALSE, message |-> message, error |-> message])

\* the catch block of the entry point
catchError(f, message) ==
    IF f.entryPoint = "action"
    THEN Return(f, [success |-> FALSE,
                    message |-> "Failed to create plan: " \o message,
                    error |-> message])
    ELSE Return(f, [statusCode |-> 500,
                    body |-> [error |-> "Failed to generate plan",
                              details |-> message]])

RECURSIVE EpicLines(_, _)
EpicLines(epics, i) ==
    IF i > Len(epics) THEN ""
    ELSE "- " \o epics[i].key \o ": " \o epics[i].summary \o "\n"
         \o EpicLines(epics, i + 1)

\* the entry point after createJiraIssues returned createdIssues
returnCreated(f) ==
    LET created == f.createdIssues
    IN  IF f.entryPoint = "action"
        THEN IF /\ Len(created.epics) = 0
                /\ Len(created.stories) = 0
                /\ Len(created.subtasks) = 0
             THEN Return(f, [success |-> FALSE,
                             message |-> "No issues were created. This might be because all items already exist in your chat history. If you want to start fresh, you can reset the chat history."])
             ELSE Return(f,
                    [success |-> TRUE,
                     message |->
                         "## Successfully Created Jira Plan for "
                         \o f.payload.projectKey \o "\n\n**Summary:**\n- "
                         \o ToString(Len(created.epics)) \o " Epics\n- "
                         \o ToString(Len(created.stories)) \o " Stories\n- "
                         \o ToString(Len(created.subtasks)) \o " Subtasks\n\n"
                         \o (IF Len(created.epics) > 0
                             THEN "**Epics Created:**\n"
                                  \o EpicLines(created.epics, 1)
                             ELSE ""),
                     summary |->
                         [projectKey |-> f.payload.projectKey,
                          epicCount |-> Len(created.epics),
                          storyCount |-> Len(created.stories),
                          subtaskCount |-> Len(created.subtasks),
                          epics |-> [k \in 1..Len(created.epics) |->
                                        [key |-> created.epics[k].key,
                                         summary |-> created.epics[k].summary]],
                          firstEpicKey |->
                              IF Len(created.epics) > 0
                              THEN created.epics[1].key ELSE NoValue]])
        ELSE Return(f, [statusCode |-> 200,
                        body |-> [success |-> TRUE,
                                  message |-> "Plan created successfully",
                                  plan |-> created]])

\* a filter that also consults the issues the tracker holds by now
RECURSIVE seekNextInTracker(_, _, _, _, _)
seekNextInTracker(pl, hist, e, s, t) ==
    LET held(kind) ==
            [k \in 1..Len(issues) |->
                [summary |-> IF issues[k].kind = kind
                             THEN issues[k].summary ELSE ""]]
    IN  IF e > Len(pl.epics) THEN <<0, 0, 0>>
        ELSE IF s = 0
        THEN IF isDuplicate(pl.epics[e].summary,
                            hist.createdEpics \o held("epic"))
             THEN seekNextInTracker(pl, hist, e + 1, 0, 0)
             ELSE <<e, 0, 0>>
        ELSE IF s > Len(pl.epics[e].stories)
        THEN seekNextInTracker(pl, hist, e + 1, 0, 0)
        ELSE IF t = 0
        THEN IF isDuplicate(pl.epics[e].stories[s].summary,
                            hist.createdStories \o held("story"))
             THEN seekNextInTracker(pl, hist, e, s + 1, 0)
             ELSE <<e, s, 0>>
        ELSE IF t > Len(pl.epics[e].stories[s].subtasks)
        THEN seekNextInTracker(pl, hist, e, s + 1, 0)
        ELSE IF isDuplicate(pl.epics[e].stories[s].subtasks[t].summary,
                            hist.createdSubtasks \o held("subtask"))
        THEN seekNextInTracker(pl, hist, e, s, t + 1)
        ELSE <<e, s, t>>

\* a walk that creates every epic of the plan, in the history or not
RECURSIVE seekNextKeepingEpics(_, _, _, _, _)
seekNextKeepingEpics(pl, hist, e, s, t) ==
    IF e > Len(pl.epics) THEN <<0, 0, 0>>
    ELSE IF s = 0 THEN <<e, 0, 0>>
    ELSE IF s > Len(pl.epics[e].stories)
    THEN seekNextKeepingEpics(pl, hist, e + 1, 0, 0)
    ELSE IF t = 0
    THEN IF isDuplicate(pl.epics[e].stories[s].summary, hist.createdStories)
         THEN seekNextKeepingEpics(pl, hist, e, s + 1, 0)
         ELSE <<e, s, 0>>
    ELSE IF t > Len(pl.epics[e].stories[s].subtasks)
    THEN seekNextKeepingEpics(pl, hist, e, s + 1, 0)
    ELSE IF isDuplicate(pl.epics[e].stories[s].subtasks[t].summary,
                        hist.createdSubtasks)
    THEN seekNextKeepingEpics(pl, hist, e, s, t + 1)
    ELSE <<e, s, t>>

\* the next node createJiraIssues creates, from the loop position (e, s, t):
\* s = 0 is the head of the epic loop at epic e, t = 0 the head of the story
\* loop at story s of epic e (whose epic was created), otherwise the head of
\* the subtask loop; <<0, 0, 0>> when the loops are over.  A duplicate is
\* skipped with its descendants (continue).
RECURSIVE seekNext(_, _, _, _, _)
seekNext(pl, hist, e, s, t) ==
    IF e > Len(pl.epics) THEN <<0, 0, 0>>
    ELSE IF s = 0
    THEN IF isDuplicate(pl.epics[e].summary, hist.createdEpics)
         THEN seekNext(pl, hist, e + 1, 0, 0)
         ELSE <<e, 0, 0>>
    ELSE IF s > Len(pl.epics[e].stories) THEN seekNext(pl, hist, e + 1, 0, 0)
    ELSE IF t = 0
    THEN IF isDuplicate(pl.epics[e].stories[s].summary, hist.createdStories)
         THEN seekNext(pl, hist, e, s + 1, 0)
         ELSE <<e, s, 0>>
    ELSE IF t > Len(pl.epics[e].stories[s].subtasks)
    THEN seekNext(pl, hist, e, s + 1, 0)
    ELSE IF isDuplicate(pl.epics[e].stories[s].subtasks[t].summary,
                        hist.createdSubtasks)
    THEN seekNext(pl, hist, e, s, t + 1)
    ELSE <<e, s, t>>

\* estimatedTime.replace(/\s+/g, '')
RECURSIVE removeWhitespace(_)
removeWhitespace(text) ==
    IF text = "" THEN ""
    ELSE (IF CharAt(text, 1) \in Whitespace THEN "" ELSE CharAt(text, 1))
         \o removeWhitespace(SubSeq(text, 2, Len(text)))

\* `Difficulty:${difficulty}` and `Time:${estimatedTime without spaces}`
ratingLabels(nodeData) ==
    <<"Difficulty:" \o nodeData.difficulty,
      "Time:" \o removeWhitespace(nodeData.estimatedTime)>>

\* epicLabels, storyLabels and subtaskLabels: the epic's plan labels come
\* first; a story of the plan has no labels field (storyData.labels || [])
requestLabels(f, node) ==
    LET epicData == f.plan.epics[node[1]]
    IN  IF node[2] = 0 THEN epicData.labels \o ratingLabels(epicData)
        ELSE IF node[3] = 0 THEN ratingLabels(epicData.stories[node[2]])
        ELSE ratingLabels(epicData.stories[node[2]].subtasks[node[3]])

\* the create-issue request of a node with the given parent key
requestWithParent(f, node, parentKey) ==
    LET e == node[1]
        s == node[2]
        t == node[3]
        epicData == f.plan.epics[e]
    IN  IF s = 0
        THEN Call("POST issue", "epic", node, epicData.summary,
                  f.issueTypes.epic, NoValue, requestLabels(f, node))
        ELSE IF t = 0
        THEN Call("POST issue", "story", node, epicData.stories[s].summary,
                  f.issueTypes.story, parentKey, requestLabels(f, node))
        ELSE Call("POST issue", "subtask", node,
                  epicData.stories[s].subtasks[t].summary,
                  f.issueTypes.subtask, parentKey, requestLabels(f, node))

\* a create-issue request that links no node to its parent
createRequestParentless(f, node) == requestWithParent(f, node, NoValue)

\* the create-issue request of a node: a story is linked to epic.key, the
\* epic created by this iteration of the epic loop, a subtask to story.key
createRequest(f, node) ==
    requestWithParent(f, node,
                      IF node[2] = 0 THEN NoValue
                      ELSE IF node[3] = 0
                      THEN Last(f.createdIssues.epics).key
                      ELSE Last(f.createdIssues.stories).key)

\* the loops of createJiraIssues run on from position (e, s, t) to the next
\* create-issue request, or past the loops to saveChatHistory
continueLoops(f, e, s, t) ==
    LET node == seekNext(f.plan, f.chatHistory, e, s, t)
    IN  IF node = <<0, 0, 0>>
        THEN IssueCall(f, StorageCall("storage.set", CHAT_HISTORY_KEY), "save")
        ELSE IssueCall(f, createRequest(f, node),
                       IF node[2] = 0 THEN "epicWait"
                       ELSE IF node[3] = 0 THEN "storyWait"
                       ELSE "subtaskWait")

\* createJiraIssues up to its first await, getChatHistory
createJiraIssues(f, pl) ==
    IssueCall([f EXCEPT !.plan = pl,
                        !.createdIssues =
                            [epics |-> <<>>, stories |-> <<>>, subtasks |-> <<>>]],
              StorageCall("storage.get", CHAT_HISTORY_KEY), "getHistory")

\* the entry point from its validation on
validateAndPlan(f) ==
    IF Falsy(f.payload.projectKey) \/ Falsy(f.payload.goal)
    THEN IF f.entryPoint = "action"
         THEN Return(f, [success |-> FALSE,
                         message |-> "Missing required fields. Please provide both a project key and a goal description."])
         ELSE Return(f, [statusCode |-> 400,
                         body |-> [error |-> "Missing required fields: projectKey and goal are required"]])
    ELSE createJiraIssues(f, parseGoalIntoPlan(f.payload.goal, contextLabels(f)))

\* the entry point up to its first await: createJiraPlanAction resets the
\* history, when asked to, before it validates
start(f) ==
    IF f.entryPoint = "action" /\ f.payload.resetHistory
    THEN IssueCall(f, StorageCall("storage.set", CHAT_HISTORY_KEY), "reset1")
    ELSE validateAndPlan(f)

\* the payloads createJiraPlanAction is called with
ActionPayloads ==
    {[projectKey |-> k, goal |-> g, resetHistory |-> r,
      context |-> [labels |-> <<>>]] :
        <<k, g, r>> \in {<<"PROJ", "Fix typo", FALSE>>,
                         <<"PROJ", "Fix typo", TRUE>>,
                         <<"PROJ", "Fix bug", FALSE>>,
                         <<NoValue, "Fix typo", FALSE>>,
                         <<"PROJ", NoValue, TRUE>>,
                         <<"PROJ", "", FALSE>>}}

\* the request bodies planGenerator is called with
WebtriggerPayloads ==
    {[projectKey |-> k, goal |-> g, resetHistory |-> FALSE,
      context |-> [labels |-> <<"team-a">>]] :
        <<k, g>> \in {<<"PROJ", "Fix typo">>,
                      <<NoValue, "Fix typo">>,
                      <<"PROJ", NoValue>>}}

PayloadsOf(entry) ==
    IF entry = "action" THEN ActionPayloads ELSE WebtriggerPayloads

InitOrch ==
    /\ storage = EmptyStorage
    /\ issues = <<>>
    /\ provenance = <<>>
    /\ frame = [i \in Invocations |-> IdleFrame]
    /\ sched = NoSchedule
    /\ GoalIdle
    /\ DupIdle
    /\ EstIdle
    /\ AdfIdle

\* invocation i runs from one await to the next; the runtime interleaves the
\* invocations at their awaits
Preempts(i) ==
    /\ sched.last \in Invocations \ {i}
    /\ frame[sched.last].pc \notin {"idle", "done"}

Resume(i) ==
    /\ Preempts(i) => sched.preemptions < MaxPreemptions
    /\ sched' = [last |-> i,
                 preemptions |-> sched.preemptions +
                                    (IF Preempts(i) THEN 1 ELSE 0)]

\* the outcomes the pending call can have: it succeeds, or it fails with one
\* of the error texts
FailedCalls(f) ==
    Cardinality({k \in DOMAIN f.calls : f.calls[k].status = "failed"})

PossibleOutcomes ==
    IF SumSeq([i \in Invocations |-> FailedCalls(frame[i])], 1) < MaxFailures
    THEN Outcomes
    ELSE {out \in Outcomes : out.ok}

\* an entry point is called; the invocations are numbered in the order in
\* which they are called
Start(i) ==
    /\ frame[i].pc = "idle"
    /\ \A j \in Invocations : j < i => frame[j].pc # "idle"
    /\ Resume(i)
    /\ \E entry \in {"action", "webtrigger"} :
          \E pl \in PayloadsOf(entry) :
              frame' = [frame EXCEPT ![i] =
                           start([@ EXCEPT !.entryPoint = entry,
                                           !.payload = pl])]
    /\ UNCHANGED <<storage, issues, provenance, goalVars, dupVars, estVars, adfVars>>

\* resetChatHistory: storage.set(CHAT_HISTORY_KEY, ...) completes; a rejection
\* is caught inside resetChatHistory, whose result the caller ignores
ResetHistoryWritten(i) ==
    /\ frame[i].pc = "reset1"
    /\ Resume(i)
    /\ \E out \in PossibleOutcomes :
          IF out.ok
          THEN /\ storage' = [storage EXCEPT !.history = <<EmptyHistory>>]
               /\ frame' = [frame EXCEPT ![i] =
                     IssueCall(Complete(@, out, NoValue),
                               StorageCall("storage.set", CURRENT_CHAT_ID_KEY),
                               "reset2")]
          ELSE /\ storage' = storage
               /\ frame' = [frame EXCEPT ![i] =
                     validateAndPlan(Complete(@, out, NoValue))]
    /\ UNCHANGED <<issues, provenance, goalVars, dupVars, estVars, adfVars>>

\* resetChatHistory: storage.set(CURRENT_CHAT_ID_KEY, newChatId) completes;
\* the identifiers Date.now() yields are numbered
ResetChatIdWritten(i) ==
    /\ frame[i].pc = "reset2"
    /\ Resume(i)
    /\ \E out \in PossibleOutcomes :
          /\ storage' =
                 IF out.ok
                 THEN [storage EXCEPT !.chatId =
                          IF @ = <<>> THEN <<1>> ELSE <<@[1] + 1>>]
                 ELSE storage
          /\ frame' = [frame EXCEPT ![i] =
                validateAndPlan(Complete(@, out, NoValue))]
    /\ UNCHANGED <<issues, provenance, goalVars, dupVars, estVars, adfVars>>

\* getChatHistory: storage.get(CHAT_HISTORY_KEY) completes
HistoryRead(i) ==
    /\ frame[i].pc = "getHistory"
    /\ Resume(i)
    /\ \E out \in PossibleOutcomes :
          frame' = [frame EXCEPT ![i] =
              IF out.ok
              THEN IssueCall(
                       [Complete(@, out, NoValue) EXCEPT !.chatHistory =
                           getChatHistory(storage.history)],
                       Call("GET project", frame[i].payload.projectKey,
                            <<0, 0, 0>>, "", NoValue, NoValue, <<>>),
                       "getTypes")
              ELSE catchError(Complete(@, out, NoValue), out.error)]
    /\ UNCHANGED <<storage, issues, provenance, goalVars, dupVars, estVars, adfVars>>

\* getProjectIssueTypes: the project request completes; a failure is caught
\* and answered with the default names
IssueTypesFetched(i) ==
    /\ frame[i].pc = "getTypes"
    /\ Resume(i)
    /\ \E out \in PossibleOutcomes :
          frame' = [frame EXCEPT ![i] =
              continueLoops(
                  [Complete(@, out, NoValue) EXCEPT !.issueTypes =
                      IF out.ok THEN resolveIssueTypes(ProjectIssueTypes)
                      ELSE DefaultIssueTypes],
                  1, 0, 0)]
    /\ UNCHANGED <<storage, issues, provenance, goalVars, dupVars, estVars, adfVars>>

\* the issue the tracker creates for the pending request of invocation i
NewIssue(i) ==
    LET call == Last(frame[i].calls)
    IN  [key |-> frame[i].payload.projectKey \o "-" \o ToString(Len(issues) + 1),
         id |-> Len(issues) + 1,
         kind |-> call.target, summary |-> call.summary,
         issuetype |-> call.issuetype, parent |-> call.parent,
         labels |-> call.labels, by |-> i]

\* the create request of an epic completes
EpicCreated(i) ==
    /\ frame[i].pc = "epicWait"
    /\ Resume(i)
    /\ \E out \in PossibleOutcomes :
          LET epic == NewIssue(i)
              node == Last(frame[i].calls).node
              epicRecord == [key |-> epic.key, id |-> epic.id,
                             summary |-> epic.summary]
          IN  IF out.ok
              THEN /\ issues' = Append(issues, epic)
                   /\ frame' = [frame EXCEPT ![i] =
                         continueLoops(
                             [Complete(@, out, epic.key) EXCEPT
                                 !.createdIssues.epics = Append(@, epicRecord),
                                 !.chatHistory.createdEpics =
                                     Append(@, epicRecord)],
                             node[1], 1, 0)]
              ELSE /\ issues' = issues
                   /\ frame' = [frame EXCEPT ![i] =
                         catchError(Complete(@, out, NoValue),
                                    "Failed to create epic: " \o out.error)]
    /\ UNCHANGED <<storage, provenance, goalVars, dupVars, estVars, adfVars>>

\* the create request of a story completes
StoryCreated(i) ==
    /\ frame[i].pc = "storyWait"
    /\ Resume(i)
    /\ \E out \in PossibleOutcomes :
          LET story == NewIssue(i)
              node == Last(frame[i].calls).node
              storyRecord == [key |-> story.key, id |-> story.id,
                              summary |-> story.summary,
                              epicKey |-> Last(frame[i].createdIssues.epics).key]
          IN  IF out.ok
              THEN /\ issues' = Append(issues, story)
                   /\ frame' = [frame EXCEPT ![i] =
                         continueLoops(
                             [Complete(@, out, story.key) EXCEPT
                                 !.createdIssues.stories = Append(@, storyRecord),
                                 !.chatHistory.createdStories =
                                     Append(@, storyRecord)],
                             node[1], node[2], 1)]
              ELSE /\ issues' = issues
                   /\ frame' = [frame EXCEPT ![i] =
                         catchError(Complete(@, out, NoValue),
                                    "Failed to create story: " \o out.error)]
    /\ UNCHANGED <<storage, provenance, goalVars, dupVars, estVars, adfVars>>

\* the create request of a subtask completes
SubtaskCreated(i) ==
    /\ frame[i].pc = "subtaskWait"
    /\ Resume(i)
    /\ \E out \in PossibleOutcomes :
          LET subtask == NewIssue(i)
              node == Last(frame[i].calls).node
              subtaskRecord ==
                  [key |-> subtask.key, id |-> subtask.id,
                   summary |-> subtask.summary,
                   storyKey |-> Last(frame[i].createdIssues.stories).key]
          IN  IF out.ok
              THEN /\ issues' = Append(issues, subtask)
                   /\ frame' = [frame EXCEPT ![i] =
                         continueLoops(
                             [Complete(@, out, subtask.key) EXCEPT
                                 !.createdIssues.subtasks =
                                     Append(@, subtaskRecord),
                                 !.chatHistory.createdSubtasks =
                                     Append(@, subtaskRecord)],
                             node[1], node[2], node[3] + 1)]
              ELSE /\ issues' = issues
                   /\ frame' = [frame EXCEPT ![i] =
                         catchError(Complete(@, out, NoValue),
                                    "Failed to create subtask: " \o out.error)]
    /\ UNCHANGED <<storage, provenance, goalVars, dupVars, estVars, adfVars>>

\* saveChatHistory: storage.set(CHAT_HISTORY_KEY, chatHistory) completes; the
\* provenance request follows when an epic was created
HistorySaved(i) ==
    /\ frame[i].pc = "save"
    /\ Resume(i)
    /\ \E out \in PossibleOutcomes :
          IF out.ok
          THEN /\ storage' = [storage EXCEPT
                                 !.history = <<frame[i].chatHistory>>]
               /\ frame' = [frame EXCEPT ![i] =
                     IF Len(@.createdIssues.epics) > 0
                     THEN IssueCall(Complete(@, out, NoValue),
                                    Call("PUT property",
                                         @.createdIssues.epics[1].key,
                                         <<0, 0, 0>>, "", NoValue, NoValue, <<>>),
                                    "provenance")
                     ELSE returnCreated(Complete(@, out, NoValue))]
          ELSE /\ storage' = storage
               /\ frame' = [frame EXCEPT ![i] =
                     catchError(Complete(@, out, NoValue), out.error)]
    /\ UNCHANGED <<issues, provenance, goalVars, dupVars, estVars, adfVars>>

\* a provenance record that counts the nodes of the plan
provenanceDataOfPlan(f) ==
    [generatedBy |-> "Rovo Plan Generator",
     originalGoal |-> f.payload.goal,
     context |-> [labels |-> contextLabels(f)],
     totalEpics |-> Len(f.plan.epics),
     totalStories |->
         SumSeq([e \in 1..Len(f.plan.epics) |-> Len(f.plan.epics[e].stories)], 1),
     totalSubtasks |->
         SumSeq([e \in 1..Len(f.plan.epics) |->
                    SumSeq([s \in 1..Len(f.plan.epics[e].stories) |->
                               Len(f.plan.epics[e].stories[s].subtasks)], 1)],
                1)]

\* provenanceData of createJiraIssues (the timestamp is left out)
provenanceData(f) ==
    [generatedBy |-> "Rovo Plan Generator",
     originalGoal |-> f.payload.goal,
     context |-> [labels |-> contextLabels(f)],
     totalEpics |-> Len(f.createdIssues.epics),
     totalStories |-> Len(f.createdIssues.stories),
     totalSubtasks |-> Len(f.createdIssues.subtasks)]

\* the plan-provenance request completes; its response is not looked at
ProvenanceWritten(i) ==
    /\ frame[i].pc = "provenance"
    /\ Resume(i)
    /\ \E out \in PossibleOutcomes :
          /\ provenance' =
                 IF out.ok
                 THEN Append(provenance,
                        [epicKey |-> Last(frame[i].calls).target]
                        @@ provenanceData(frame[i]))
                 ELSE provenance
          /\ frame' = [frame EXCEPT ![i] =
                returnCreated(Complete(@, out, NoValue))]
    /\ UNCHANGED <<storage, issues, goalVars, dupVars, estVars, adfVars>>

Next ==
    \E i \in Invocations :
        \/ Start(i)
        \/ ResetHistoryWritten(i)
        \/ ResetChatIdWritten(i)
        \/ HistoryRead(i)
        \/ IssueTypesFetched(i)
        \/ EpicCreated(i)
        \/ StoryCreated(i)
        \/ SubtaskCreated(i)
        \/ HistorySaved(i)
        \/ ProvenanceWritten(i)

Spec == InitOrch /\ [][Next]_vars

-----------------------------------------------------------------------------
(* SpecSeq: the same entry points called one after the other, an invocation *)
(* starting when the one before it has returned, with goals of the same     *)
(* work area at both fan-out tiers.                                         *)

\* a goal of more than 60 characters: implementation, complexity low
LongGoal == "Fix typo in the title of the weekly newsletter of our sales team"

\* a goal that begins like LongGoal, so that truncateText gives both the
\* same epic summary; its five sentences make its complexity high
LongGoalInSentences == LongGoal \o ". Go. Go. Go. Go."

\* the calls of the entry points, in turn
CallsInTurn ==
    {[entryPoint |-> "action",
      payload |-> [projectKey |-> "PROJ", goal |-> g, resetHistory |-> r,
                   context |-> [labels |-> <<>>]]] :
        <<g, r>> \in {<<"Fix typo", FALSE>>,
                      <<"Fix typo", TRUE>>,
                      <<LongGoal, FALSE>>,
                      <<LongGoalInSentences, FALSE>>}}
    \cup
    {[entryPoint |-> "webtrigger",
      payload |-> [projectKey |-> "PROJ", goal |-> "Fix typo",
                   resetHistory |-> FALSE,
                   context |-> [labels |-> <<"team-a">>]]]}

\* an entry point is called after every earlier invocation has returned
StartInTurn(i) ==
    /\ frame[i].pc = "idle"
    /\ \A j \in Invocations : j < i => frame[j].pc = "done"
    /\ Resume(i)
    /\ \E call \in CallsInTurn :
          frame' = [frame EXCEPT ![i] =
                       start([@ EXCEPT !.entryPoint = call.entryPoint,
                                       !.payload = call.payload])]
    /\ UNCHANGED <<storage, issues, provenance, goalVars, dupVars, estVars, adfVars>>

NextSeq ==
    \E i \in Invocations :
        \/ StartInTurn(i)
        \/ ResetHistoryWritten(i)
        \/ ResetChatIdWritten(i)
        \/ HistoryRead(i)
        \/ IssueTypesFetched(i)
        \/ EpicCreated(i)
        \/ StoryCreated(i)
        \/ SubtaskCreated(i)
        \/ HistorySaved(i)
        \/ ProvenanceWritten(i)

SpecSeq == InitOrch /\ [][NextSeq]_vars

-----------------------------------------------------------------------------
(* Properties of the goal analyzer and the plan expander (SpecGoal) *)

AreaTypes(an) == [i \in 1..Len(an.workAreas) |-> an.workAreas[i].type]

\* the area types whose pattern matches the goal
MatchedAreas(g) ==
    LET lowered == toLowerCase(g)
    IN  {a \in Range(AreaOrder) : RegExpTest(AreaPattern[a], lowered)}

C4_WorkAreaCap ==
    gpc = "analyzed" =>
        /\ analysis.complexity = "high" => Len(analysis.workAreas) <= 6
        /\ analysis.complexity = "medium" => Len(analysis.workAreas) <= 2
        /\ analysis.complexity = "low" => Len(analysis.workAreas) <= 1

\* all eight patterns match and the list is cut to six
C4_Witness ==
    /\ gpc = "analyzed"
    /\ analysis.complexity = "high"
    /\ Len(analysis.workAreas) = 6
    /\ Cardinality(MatchedAreas(goal)) = 8

\* C5: for every goal, the empty one included, workAreas is not empty (the
\* single implementation entry without keywords when no pattern matches),
\* the complexity is low, medium or high, and every work area other than
\* implementation has a keyword.
C5_AnalysisWellFormed ==
    gpc = "analyzed" =>
        /\ Len(analysis.workAreas) >= 1
        /\ analysis.complexity \in {"low", "medium", "high"}
        /\ \A i \in 1..Len(analysis.workAreas) :
              analysis.workAreas[i].type # "implementation"
                  => analysis.workAreas[i].keywords # <<>>
        /\ MatchedAreas(goal) = {}
              => analysis.workAreas
                     = <<[type |-> "implementation", keywords |-> <<>>]>>

C5_Witness ==
    /\ gpc = "analyzed"
    /\ goal = ""
    /\ analysis.workAreas = <<[type |-> "implementation", keywords |-> <<>>]>>
    /\ analysis.complexity = "low"

\* what text.match would return with the g flag: the matches found scanning
\* left to right, each search starting after the previous match
RECURSIVE GlobalMatchesFrom(_, _, _, _)
GlobalMatchesFrom(text, lowered, pattern, from) ==
    LET hits == {i \in from..Len(lowered) :
                    \E k \in 1..Len(pattern) :
                        AltMatchesAt(lowered, i, pattern[k])}
    IN  IF hits = {} THEN {}
        ELSE LET pos == CHOOSE i \in hits : \A j \in hits : i <= j
                 k == CHOOSE k \in 1..Len(pattern) :
                          /\ AltMatchesAt(lowered, pos, pattern[k])
                          /\ \A j \in 1..(k - 1) :
                                ~AltMatchesAt(lowered, pos, pattern[j])
             IN  {toLowerCase(SubSeq(text, pos, pos + Len(pattern[k]) - 1))}
                 \cup GlobalMatchesFrom(text, lowered, pattern,
                                        pos + Len(pattern[k]))

\* C6 as stated: the keywords of a work area are all the substrings of the
\* goal that match the area's pattern, in lower case, each once.
C6_AllMatchesAreKeywords ==
    gpc = "analyzed" =>
        \A i \in 1..Len(analysis.workAreas) :
            analysis.workAreas[i].type # "implementation" =>
                Range(analysis.workAreas[i].keywords)
                    = GlobalMatchesFrom(goal, toLowerCase(goal),
                          AreaPattern[analysis.workAreas[i].type], 1)

-----------------------------------------------------------------------------
(* Properties of the duplicate filter (SpecDup) *)

\* two strings are equal up to the case of their letters
SameIgnoringCase(a, b) ==
    /\ Len(a) = Len(b)
    /\ \A i \in 1..Len(a) : LowerChar(CharAt(a, i)) = LowerChar(CharAt(b, i))

\* C7: isDuplicate is true exactly when some history entry's summary equals
\* the candidate up to letter case and surrounding white space; with
\* "Implement CRUD operations" in the history "  implement CRUD OPERATIONS "
\* is a duplicate and "Implement CRUD operation" is not.
C7_DuplicateIffSameBody ==
    dpc = "checked" =>
        /\ duplicate <=>
              \E k \in 1..Len(createdItems) :
                  SameIgnoringCase(createdItems[k].body, itemSummary.body)
        /\ (/\ \E k \in 1..Len(createdItems) :
                  SummaryText(createdItems[k]) = "Implement CRUD operations"
            /\ SummaryText(itemSummary) = "  implement CRUD OPERATIONS ")
           => duplicate = TRUE
        /\ (/\ \A k \in 1..Len(createdItems) :
                  SummaryText(createdItems[k]) = "Implement CRUD operations"
            /\ SummaryText(itemSummary) = "Implement CRUD operation")
           => duplicate = FALSE

C7_Witness ==
    /\ dpc = "checked"
    /\ createdItems
           = <<[pre |-> "", body |-> "Implement CRUD operations", post |-> ""]>>
    /\ SummaryText(itemSummary) = "  implement CRUD OPERATIONS "
    /\ duplicate = TRUE

\* the place of an area type in the order frontend, backend, auth, testing,
\* deployment, data, mobile, documentation; 0 for any other type
ScanRank(type) ==
    CASE type = "frontend" -> 1
      [] type = "backend" -> 2
      [] type = "auth" -> 3
      [] type = "testing" -> 4
      [] type = "deployment" -> 5
      [] type = "data" -> 6
      [] type = "mobile" -> 7
      [] type = "documentation" -> 8
      [] OTHER -> 0

\* the first position at which text contains one of the words, 0 if none
FirstMention(text, words) ==
    LET at == {i \in 1..Len(text) :
                  \E k \in 1..Len(words) : MatchesAt(text, i, words[k])}
    IN  IF at = {} THEN 0 ELSE CHOOSE i \in at : \A j \in at : i <= j

\* C19: the work areas analyzeGoal returns are of pairwise different types
\* and come in the order frontend, backend, auth, testing, deployment, data,
\* mobile, documentation, wherever the goal mentions them; the type
\* implementation occurs only as the single entry of the list.
C19_WorkAreasInScanOrder ==
    gpc \in {"analyzed", "planned"} =>
        LET areas == analysis.workAreas
        IN  /\ \A a, b \in 1..Len(areas) :
                   a < b => /\ areas[a].type # areas[b].type
                            /\ ScanRank(areas[a].type) < ScanRank(areas[b].type)
            /\ \A a \in 1..Len(areas) :
                   \/ ScanRank(areas[a].type) >= 1
                   \/ areas[a].type = "implementation" /\ Len(areas) = 1

\* a goal that mentions the mobile area before the backend area and the
\* frontend area last of all, analyzed with frontend first and backend second
C19_Witness ==
    /\ gpc = "analyzed"
    /\ Len(analysis.workAreas) >= 2
    /\ analysis.workAreas[1].type = "frontend"
    /\ analysis.workAreas[2].type = "backend"
    /\ LET text == toLowerCase(goal)
           mobileAt == FirstMention(text, AreaPattern.mobile)
           backendAt == FirstMention(text, AreaPattern.backend)
           frontendAt == FirstMention(text, AreaPattern.frontend)
       IN  /\ 0 < mobileAt
           /\ mobileAt < backendAt
           /\ backendAt < frontendAt

\* the analysis lists one work area (at most one was detected) and reports
\* high complexity: the goal has more than 100 words or 5 sentences or more
SingleAreaEscalatedToHigh ==
    /\ gpc = "planned"
    /\ Len(analysis.workAreas) = 1
    /\ analysis.complexity = "high"
    /\ analysis.wordCount > 100 \/ analysis.sentenceCount >= 5

\* the plan is one epic of stories stories with subtasks subtasks each
SingleEpicFanOut(stories, subtasks) ==
    /\ Len(plan.epics) = 1
    /\ Len(plan.epics[1].stories) = stories
    /\ \A s \in 1..Len(plan.epics[1].stories) :
          Len(plan.epics[1].stories[s].subtasks) = subtasks

-----------------------------------------------------------------------------
(* Properties of the entry points and of createJiraIssues (Spec) *)

\* the positions of the create-issue requests among the calls of a frame
CreateCallsOf(f) == {k \in DOMAIN f.calls : f.calls[k].op = "POST issue"}

\* node a comes before node b when the plan is walked depth-first
DepthFirstBefore(a, b) ==
    \/ a[1] < b[1]
    \/ a[1] = b[1] /\ a[2] < b[2]
    \/ a[1] = b[1] /\ a[2] = b[2] /\ a[3] < b[3]

\* the request at position k of f answered with success, and was for node
SucceededFor(f, k, node) ==
    /\ f.calls[k].op = "POST issue"
    /\ f.calls[k].node = node
    /\ f.calls[k].status = "ok"
    /\ f.calls[k].key # NoValue

\* C8: an invocation has at most one call outstanding, and it is the one
\* issued last; its create-issue requests follow the depth-first order of the
\* plan; a story's request comes after the successful request of its epic in
\* the same invocation and carries the key that request returned as parent,
\* and a subtask's request likewise for its story.
C8_DepthFirstParentBeforeChild ==
    \A i \in Invocations :
        LET f == frame[i]
        IN  /\ \A k \in DOMAIN f.calls :
                   f.calls[k].status = "pending" => k = Len(f.calls)
            /\ \A k, l \in CreateCallsOf(f) :
                   k < l => DepthFirstBefore(f.calls[k].node, f.calls[l].node)
            /\ \A l \in CreateCallsOf(f) :
                   LET node == f.calls[l].node
                   IN  /\ node[2] = 0 => f.calls[l].parent = NoValue
                       /\ (node[2] > 0 /\ node[3] = 0) =>
                              \E k \in 1..(l - 1) :
                                  /\ SucceededFor(f, k, <<node[1], 0, 0>>)
                                  /\ f.calls[l].parent = f.calls[k].key
                       /\ node[3] > 0 =>
                              \E k \in 1..(l - 1) :
                                  /\ SucceededFor(f, k, <<node[1], node[2], 0>>)
                                  /\ f.calls[l].parent = f.calls[k].key

\* both invocations created a whole plan while the other one was under way
C8_Witness ==
    /\ sched.preemptions > 0
    /\ \A i \in Invocations :
          /\ frame[i].pc = "done"
          /\ \E l \in CreateCallsOf(frame[i]) :
                /\ frame[i].calls[l].node[3] = 3
                /\ frame[i].calls[l].status = "ok"
          /\ \E l \in CreateCallsOf(frame[i]) :
                /\ frame[i].calls[l].node = <<1, 3, 0>>
                /\ frame[i].calls[l].status = "ok"

\* the create-issue requests of a frame that were answered with an error
FailedCreateCallsOf(f) ==
    {k \in CreateCallsOf(f) : f.calls[k].status = "failed"}

\* the result of the entry point reports a failure that quotes errorText
ReportsFailure(f, errorText) ==
    /\ f.pc = "done"
    /\ IF f.entryPoint = "action"
       THEN /\ f.result.success = FALSE
            /\ includes(f.result.message, errorText)
       ELSE /\ f.result.statusCode = 500
            /\ includes(f.result.body.details, errorText)

C9_AbortsAndReports ==
    \A i \in Invocations :
        \A k \in FailedCreateCallsOf(frame[i]) :
            /\ k = Len(frame[i].calls)
            /\ ReportsFailure(frame[i], frame[i].calls[k].error)

C9_NoRollback ==
    /\ Len(issues') >= Len(issues)
    /\ \A k \in 1..Len(issues) : issues'[k] = issues[k]

\* C9: a create-issue request answered with an error is the last call of its
\* invocation, the entry point returns a failure (success false from
\* createJiraPlanAction, status 500 from planGenerator) that quotes the error
\* text, and the issues created so far all stay as they are.
C9_CreateFailureAborts ==
    []C9_AbortsAndReports /\ [][C9_NoRollback]_vars

\* a subtask request fails after the epic and a story were created
C9_Witness ==
    \E i \in Invocations :
        /\ frame[i].pc = "done"
        /\ \E k \in FailedCreateCallsOf(frame[i]) :
              /\ frame[i].calls[k].node[3] > 0
              /\ frame[i].calls[k].error = "rate limited"
        /\ \E n \in 1..Len(issues) : issues[n].by = i /\ issues[n].kind = "story"

\* C10: an invocation whose payload lacks the project key or the goal returns
\* without having issued a storage call or a tracker request.
C10_ValidationBeforeAnyCall ==
    \A i \in Invocations :
        (/\ frame[i].pc = "done"
         /\ Falsy(frame[i].payload.projectKey) \/ Falsy(frame[i].payload.goal))
            => frame[i].calls = <<>>

\* createJiraIssues returned to the entry point with nothing created
NoOpReturn(f) ==
    /\ f.pc = "done"
    /\ f.calls # <<>>
    /\ Last(f.calls).op = "storage.set"
    /\ Last(f.calls).target = CHAT_HISTORY_KEY
    /\ Last(f.calls).status = "ok"
    /\ f.createdIssues.epics = <<>>
    /\ f.createdIssues.stories = <<>>
    /\ f.createdIssues.subtasks = <<>>

\* the response an entry point gives after a creation
OrdinarySuccess(f) ==
    IF f.entryPoint = "action"
    THEN f.result.success = TRUE
    ELSE /\ f.result.statusCode = 200
         /\ f.result.body.success = TRUE
         /\ f.result.body.message = "Plan created successfully"

\* C11: an invocation in which every node of the plan was skipped as a
\* duplicate does not answer with the response of a successful creation.
C11_NoOpDistinguishable ==
    \A i \in Invocations : NoOpReturn(frame[i]) => ~OrdinarySuccess(frame[i])

\* the positions of the project requests of a frame that failed
FailedFetchesOf(f) ==
    {k \in DOMAIN f.calls :
        f.calls[k].op = "GET project" /\ f.calls[k].status = "failed"}

\* the issue type a create-issue request of each kind names by default
DefaultTypeOf(kind) ==
    IF kind = "epic" THEN "Epic"
    ELSE IF kind = "story" THEN "Task"
    ELSE "Subtask"

\* C12 as stated: after a failed project request the invocation issues no
\* create-issue request and returns a failure that quotes the error.
C12_FetchFailureAborts ==
    \A i \in Invocations :
        \A k \in FailedFetchesOf(frame[i]) :
            /\ \A l \in CreateCallsOf(frame[i]) : l < k
            /\ frame[i].pc = "done" =>
                   ReportsFailure(frame[i], frame[i].calls[k].error)

\* C12, amended: a failed project request is answered with the default issue
\* type names Epic, Task and Subtask; the invocation goes on to its next
\* call, every create-issue request it issues names the default type of its
\* kind, and when no other call fails the entry point returns no failure.
C12_FetchFailureFallsBack ==
    \A i \in Invocations :
        \A k \in FailedFetchesOf(frame[i]) :
            LET f == frame[i]
            IN  /\ k < Len(f.calls)
                /\ f.calls[k + 1].op \in {"POST issue", "storage.set"}
                /\ \A l \in CreateCallsOf(f) :
                       /\ l > k
                       /\ f.calls[l].issuetype = DefaultTypeOf(f.calls[l].target)
                /\ (f.pc = "done" /\ FailedCalls(f) = 1) =>
                       IF f.entryPoint = "action"
                       THEN "error" \notin DOMAIN f.result
                       ELSE f.result.statusCode = 200

\* after a failed project request the whole plan was created
C12_Witness ==
    \E i \in Invocations :
        /\ frame[i].pc = "done"
        /\ FailedFetchesOf(frame[i]) # {}
        /\ Len(frame[i].createdIssues.subtasks) = 9
        /\ \E n \in 1..Len(issues) :
              /\ issues[n].by = i
              /\ issues[n].kind = "subtask"
              /\ issues[n].issuetype = "Subtask"

\* C13: the label list of every create-issue request, of an epic, a story or
\* a subtask, contains every label of context.labels.
C13_ContextLabelsOnEveryNode ==
    \A i \in Invocations :
        \A l \in CreateCallsOf(frame[i]) :
            Range(contextLabels(frame[i])) \subseteq Range(frame[i].calls[l].labels)


RECURSIVE ConcatAll(_, _)
ConcatAll(seqs, i) ==
    IF i > Len(seqs) THEN <<>> ELSE seqs[i] \o ConcatAll(seqs, i + 1)

\* the nodes of a plan in depth-first order
PlanNodes(pl) ==
    ConcatAll(
        [e \in 1..Len(pl.epics) |->
            <<<<e, 0, 0>>>>
            \o ConcatAll(
                   [s \in 1..Len(pl.epics[e].stories) |->
                       <<<<e, s, 0>>>>
                       \o [t \in 1..Len(pl.epics[e].stories[s].subtasks) |->
                              <<e, s, t>>]],
                   1)],
        1)

\* the invocation has read the history, and has not written it
ReadAndNotWritten(f) ==
    /\ \E k \in DOMAIN f.calls :
          f.calls[k].op = "storage.get" /\ f.calls[k].status = "ok"
    /\ \A k \in DOMAIN f.calls :
          ~(f.calls[k].op = "storage.set" /\ f.calls[k].target = CHAT_HISTORY_KEY
            /\ f.calls[k].status = "ok")

\* both invocations have read the history and neither has written it
Racing == \A i \in Invocations : ReadAndNotWritten(frame[i])

\* a and b are the same summary once lower-cased and trimmed
SameNormalized(a, b) == trim(toLowerCase(a)) = trim(toLowerCase(b))

\* C14: while both invocations have read the history and neither has written
\* it, the filter of each admits every node of its plan, whatever the other
\* invocation has created: the create-issue requests of each are the nodes
\* of its plan in order with none left out.  (The state C14 names, in which
\* both have created the same summary, is C14_Witness.)
C14_RacingInvocationsFilterNothing ==
    Racing =>
        \A i \in Invocations :
            LET creates == SelectSeq(frame[i].calls,
                                     LAMBDA c : c.op = "POST issue")
                nodes == PlanNodes(frame[i].plan)
            IN  /\ Len(creates) <= Len(nodes)
                /\ \A n \in 1..Len(creates) : creates[n].node = nodes[n]
                /\ frame[i].pc \in {"epicWait", "storyWait", "subtaskWait"}
                       => Len(creates) > 0

\* both invocations read the history before either wrote it, and both got a
\* successful answer to a create-issue request for the same summary
C14_Witness ==
    /\ Racing
    /\ \E k \in CreateCallsOf(frame[1]) :
          \E l \in CreateCallsOf(frame[2]) :
              /\ frame[1].calls[k].status = "ok"
              /\ frame[2].calls[l].status = "ok"
              /\ frame[1].calls[k].target = frame[2].calls[l].target
              /\ SameNormalized(frame[1].calls[k].summary,
                                frame[2].calls[l].summary)

\* the positions of the plan-provenance requests among the calls of a frame
ProvenanceCallsOf(f) == {k \in DOMAIN f.calls : f.calls[k].op = "PUT property"}

\* the create-issue requests of a kind that were answered with success
CreatedCallsOf(f, kind) ==
    {k \in CreateCallsOf(f) :
        f.calls[k].target = kind /\ f.calls[k].status = "ok"}

\* the saveChatHistory calls of a frame: the history writes after the read
SaveCallsOf(f) ==
    {k \in DOMAIN f.calls :
        /\ f.calls[k].op = "storage.set"
        /\ f.calls[k].target = CHAT_HISTORY_KEY
        /\ \E r \in 1..(k - 1) : f.calls[r].op = "storage.get"}

\* f issued exactly one provenance request: after every create-issue request,
\* addressed to the first epic f created, and what it stored counts the
\* create-issue requests of each kind that succeeded
OneProvenanceWrite(f) ==
    /\ Cardinality(ProvenanceCallsOf(f)) = 1
    /\ \A p \in ProvenanceCallsOf(f) :
          LET firstEpic ==
                  CHOOSE k \in CreatedCallsOf(f, "epic") :
                      \A l \in CreatedCallsOf(f, "epic") : k <= l
          IN  /\ \A k \in CreateCallsOf(f) : k < p
              /\ f.calls[p].target = f.calls[firstEpic].key
              /\ f.calls[p].status = "ok" =>
                     \E n \in 1..Len(provenance) :
                         /\ provenance[n].epicKey = f.calls[p].target
                         /\ provenance[n].totalEpics =
                                Cardinality(CreatedCallsOf(f, "epic"))
                         /\ provenance[n].totalStories =
                                Cardinality(CreatedCallsOf(f, "story"))
                         /\ provenance[n].totalSubtasks =
                                Cardinality(CreatedCallsOf(f, "subtask"))

\* no epic created, no provenance request
NoEpicNoProvenance(f) ==
    CreatedCallsOf(f, "epic") = {} => ProvenanceCallsOf(f) = {}

ResetRequested(f) ==
    /\ f.entryPoint = "action"
    /\ f.payload.resetHistory
    /\ ~Falsy(f.payload.projectKey)
    /\ ~Falsy(f.payload.goal)

\* C21: an invocation of createJiraPlanAction with resetHistory and a valid
\* payload reads an empty history, whatever became of the storage writes of
\* its reset, and so skips no node: its create-issue requests are the nodes
\* of its plan in order with none left out.
C21_ResetStartsFromEmptyHistory ==
    \A i \in Invocations :
        ResetRequested(frame[i]) =>
            LET creates == SelectSeq(frame[i].calls,
                                     LAMBDA c : c.op = "POST issue")
            IN  /\ frame[i].pc = "getTypes" =>
                       frame[i].chatHistory = EmptyHistory
                /\ \A n \in 1..Len(creates) :
                       creates[n].node = PlanNodes(frame[i].plan)[n]
                /\ frame[i].pc = "save" =>
                       Len(creates) = Len(PlanNodes(frame[i].plan))

\* the keys of the items a stored history holds
KeysOf(items) == {items[k].key : k \in DOMAIN items}

StoredKeys ==
    IF storage.history = <<>> THEN {}
    ELSE KeysOf(storage.history[1].createdEpics)
             \cup KeysOf(storage.history[1].createdStories)
             \cup KeysOf(storage.history[1].createdSubtasks)

\* C22: an invocation with a failed create-issue request has returned without
\* a saveChatHistory call, and none of the issues it created is in the stored
\* history.  (The later invocation that creates the same summaries again is
\* C22_Witness.)
C22_FailedInvocationRecordsNothing ==
    \A i \in Invocations :
        FailedCreateCallsOf(frame[i]) # {} =>
            /\ frame[i].pc = "done"
            /\ SaveCallsOf(frame[i]) = {}
            /\ \A n \in 1..Len(issues) :
                   issues[n].by = i => issues[n].key \notin StoredKeys

\* the first invocation created its epic and failed at a later request; the
\* second one, called afterwards with the same goal and without a reset, got
\* the same epic summary created again
C22_Witness ==
    /\ sched.preemptions = 0
    /\ FailedCreateCallsOf(frame[1]) # {}
    /\ frame[2].pc # "idle"
    /\ frame[2].payload.goal = frame[1].payload.goal
    /\ ~frame[2].payload.resetHistory
    /\ \E k \in CreatedCallsOf(frame[1], "epic") :
          \E l \in CreatedCallsOf(frame[2], "epic") :
              frame[1].calls[k].summary = frame[2].calls[l].summary

-----------------------------------------------------------------------------
(* Properties of invocations made one after the other (SpecSeq) *)

\* no invocation was asked to reset the history
NoReset ==
    \A i \in Invocations :
        frame[i].pc # "idle" => ~frame[i].payload.resetHistory

\* no external call of any invocation has failed
AllCallsSucceeded == \A i \in Invocations : FailedCalls(frame[i]) = 0

\* every invocation is yet to be called or has returned
Quiescent == \A i \in Invocations : frame[i].pc \in {"idle", "done"}

\* the summaries, lower-cased and trimmed, of the issues of a kind
NormalizedSummaries(kind) ==
    {trim(toLowerCase(issues[n].summary)) :
        n \in {m \in 1..Len(issues) : issues[m].kind = kind}}

IssuesOfKind(kind) ==
    Cardinality({m \in 1..Len(issues) : issues[m].kind = kind})

\* key and summary of the items of a list of records, in order
KeyAndSummary(items) ==
    [k \in 1..Len(items) |-> <<items[k].key, items[k].summary>>]

\* the issues of a kind the tracker holds, in creation order
Created(kind) == SelectSeq(issues, LAMBDA issue : issue.kind = kind)

\* C23: while the invocations do not overlap, none resets the history and
\* every external call succeeds, the issues of each kind the tracker holds
\* have pairwise different summaries after lower-casing and trimming, and
\* between invocations the stored history lists exactly the issues created
\* so far, kind by kind in creation order.
C23_SerialInvocationsCreateNoDuplicate ==
    (sched.preemptions = 0 /\ NoReset /\ AllCallsSucceeded) =>
        /\ \A kind \in {"epic", "story", "subtask"} :
               Cardinality(NormalizedSummaries(kind)) = IssuesOfKind(kind)
        /\ Quiescent =>
               LET history == getChatHistory(storage.history)
               IN  /\ KeyAndSummary(history.createdEpics)
                          = KeyAndSummary(Created("epic"))
                   /\ KeyAndSummary(history.createdStories)
                          = KeyAndSummary(Created("story"))
                   /\ KeyAndSummary(history.createdSubtasks)
                          = KeyAndSummary(Created("subtask"))

\* two invocations in turn without a failure or a reset: the second one, for
\* another goal of the same work area and tier, created its epic and none
\* of the epic's stories, and the stored history lists all fourteen issues
C23_Witness ==
    /\ NoReset
    /\ AllCallsSucceeded
    /\ \A i \in Invocations : frame[i].pc = "done"
    /\ frame[1].payload.goal # frame[2].payload.goal
    /\ Len(frame[1].createdIssues.subtasks) = 9
    /\ Len(frame[2].createdIssues.epics) = 1
    /\ Len(frame[2].createdIssues.stories) = 0
    /\ Len(frame[2].plan.epics[1].stories) = 3
    /\ Len(issues) = 14
    /\ Len(storage.history[1].createdEpics) = 2

\* the invocation has read the history
HasReadHistory(f) ==
    \E k \in DOMAIN f.calls :
        f.calls[k].op = "storage.get" /\ f.calls[k].status = "ok"

\* the items of the list that f did not add itself: the list as f read it
ReadItems(items, own) ==
    LET ownKeys == KeysOf(own)
    IN  SelectSeq(items, LAMBDA item : item.key \notin ownKeys)

\* the history as f read it from the storage
ReadHistory(f) ==
    [createdEpics |->
         ReadItems(f.chatHistory.createdEpics, f.createdIssues.epics),
     createdStories |->
         ReadItems(f.chatHistory.createdStories, f.createdIssues.stories),
     createdSubtasks |->
         ReadItems(f.chatHistory.createdSubtasks, f.createdIssues.subtasks)]

\* the history read holds the summary of the epic of the node
EpicInHistory(pl, read, node) ==
    isDuplicate(pl.epics[node[1]].summary, read.createdEpics)

\* the history read holds the summary of the story of the node
StoryInHistory(pl, read, node) ==
    isDuplicate(pl.epics[node[1]].stories[node[2]].summary,
                read.createdStories)

\* C24: no create-issue request is issued for an epic whose summary is in
\* the history the invocation read, nor for any story or subtask of such an
\* epic, nor for a story whose summary is in that history, nor for any of
\* its subtasks, whatever the summaries of those descendants are.
C24_SkippedWithDescendants ==
    \A i \in Invocations :
        HasReadHistory(frame[i]) =>
            LET read == ReadHistory(frame[i])
            IN  \A l \in CreateCallsOf(frame[i]) :
                    LET node == frame[i].calls[l].node
                    IN  /\ ~EpicInHistory(frame[i].plan, read, node)
                        /\ node[2] > 0 =>
                               ~StoryInHistory(frame[i].plan, read, node)

\* the second invocation found the summary of its epic in the history and
\* returned without a create-issue request, although the plan has a story
\* and a subtask whose summaries the history does not hold
C24_Witness ==
    /\ frame[2].pc = "done"
    /\ HasReadHistory(frame[2])
    /\ FailedCalls(frame[2]) = 0
    /\ CreateCallsOf(frame[2]) = {}
    /\ EpicInHistory(frame[2].plan, ReadHistory(frame[2]), <<1, 0, 0>>)
    /\ \E s \in 1..Len(frame[2].plan.epics[1].stories) :
          /\ ~StoryInHistory(frame[2].plan, ReadHistory(frame[2]), <<1, s, 0>>)
          /\ \E t \in 1..Len(frame[2].plan.epics[1].stories[s].subtasks) :
                ~isDuplicate(frame[2].plan.epics[1].stories[s].subtasks[t].summary,
                             ReadHistory(frame[2]).createdSubtasks)

-----------------------------------------------------------------------------
(* Properties of the plan as createJiraIssues walks it (SpecGoal) *)

\* the history items the epics, stories and subtasks of a plan leave, in the
\* order in which the loops of createJiraIssues reach them
EpicItems(pl) == [e \in 1..Len(pl.epics) |-> [summary |-> pl.epics[e].summary]]

StoryItems(pl) ==
    ConcatAll([e \in 1..Len(pl.epics) |->
                  [s \in 1..Len(pl.epics[e].stories) |->
                      [summary |-> pl.epics[e].stories[s].summary]]], 1)

SubtaskItems(pl) ==
    ConcatAll(
        [e \in 1..Len(pl.epics) |->
            ConcatAll(
                [s \in 1..Len(pl.epics[e].stories) |->
                    [t \in 1..Len(pl.epics[e].stories[s].subtasks) |->
                        [summary |->
                            pl.epics[e].stories[s].subtasks[t].summary]]],
                1)],
        1)

\* the numbers of stories and of subtasks of the first n epics of a plan
StoriesOfEpics(pl, n) ==
    SumSeq([e \in 1..n |-> Len(pl.epics[e].stories)], 1)

SubtasksOfStories(epic, n) ==
    SumSeq([s \in 1..n |-> Len(epic.stories[s].subtasks)], 1)

SubtasksOfEpics(pl, n) ==
    SumSeq([e \in 1..n |->
               SubtasksOfStories(pl.epics[e], Len(pl.epics[e].stories))], 1)

\* chatHistory when the loops reach the node (e, s, t), the history having
\* been empty and every node before this one having been created: the epic
\* of a story and the story of a subtask are among them
HistoryAt(pl, node, epics, stories, subtasks) ==
    LET e == node[1]
        s == node[2]
        t == node[3]
    IN  [createdEpics |-> SubSeq(epics, 1, IF s = 0 THEN e - 1 ELSE e),
         createdStories |->
             SubSeq(stories, 1,
                    StoriesOfEpics(pl, e - 1)
                        + (IF s = 0 THEN 0 ELSE IF t = 0 THEN s - 1 ELSE s)),
         createdSubtasks |->
             SubSeq(subtasks, 1,
                    SubtasksOfEpics(pl, e - 1)
                        + (IF s = 0 THEN 0
                           ELSE SubtasksOfStories(pl.epics[e], s - 1))
                        + (IF t = 0 THEN 0 ELSE t - 1))]

\* the summaries of the items, lower-cased and trimmed
NormalizedItems(items) ==
    {trim(toLowerCase(items[k].summary)) : k \in 1..Len(items)}

\* the stories a plan can hold: of every type of the catalog, the phases
\* the high tier selects, each with the subtasks the high tier selects (the
\* other tiers select fewer of the same)
SelectableStories ==
    ConcatAll([c \in 1..Len(CatalogTypes) |->
                  [i \in 1..storyCountFor("high") |->
                      CatalogStories[c][i][PositionIn(ComplexityTiers, "high")]]],
              1)

SelectableSubtasks ==
    ConcatAll([k \in 1..Len(SelectableStories) |->
                  SelectableStories[k].subtasks], 1)

\* the epic names, the selectable story summaries and the selectable
\* subtask summaries are pairwise different once lower-cased and trimmed
CatalogSummariesDistinct ==
    /\ Cardinality({trim(toLowerCase(capitalizeWorkArea(CatalogTypes[c]))) :
                       c \in 1..Len(CatalogTypes)}) = Len(CatalogTypes)
    /\ Cardinality(NormalizedItems(SelectableStories))
           = Len(CatalogTypes) * storyCountFor("high")
    /\ Cardinality(NormalizedItems(SelectableSubtasks))
           = Len(CatalogTypes) * storyCountFor("high") * subtaskCountFor("high")

\* the loops of createJiraIssues, started with an empty history, create
\* every node of the plan: at each node, the nodes before it created, the
\* duplicate check admits the node
EveryNodeAdmitted(pl, nodes, epics, stories, subtasks) ==
    \A k \in 1..Len(nodes) :
        seekNext(pl, HistoryAt(pl, nodes[k], epics, stories, subtasks),
                 nodes[k][1], nodes[k][2], nodes[k][3]) = nodes[k]

\* C25: the summaries the phase catalog yields are pairwise different after
\* lower-casing and trimming, across all types and selected phases; in the
\* plan of every goal the epic summaries are pairwise different, and so are
\* the story summaries and the subtask summaries across all epics; hence
\* createJiraIssues, started with an empty history and with every call
\* succeeding, filters no node of the plan and creates one issue per node.
C25_OneIssuePerNode ==
    /\ CatalogSummariesDistinct
    /\ gpc = "planned" =>
        /\ Cardinality(NormalizedItems(EpicItems(plan))) = Len(plan.epics)
        /\ Cardinality(NormalizedItems(StoryItems(plan))) = StoryTotal(plan)
        /\ Cardinality(NormalizedItems(SubtaskItems(plan)))
               = SubtaskTotal(plan)
        /\ EveryNodeAdmitted(plan, PlanNodes(plan), EpicItems(plan),
                             StoryItems(plan), SubtaskItems(plan))

\* the plan of a goal with six work areas at the high tier: 6 epics, 36
\* stories and 180 subtasks
C25_Witness ==
    /\ gpc = "planned"
    /\ Len(plan.epics) = 6
    /\ StoryTotal(plan) = 36
    /\ SubtaskTotal(plan) = 180
    /\ Cardinality(NormalizedItems(SubtaskItems(plan))) = 180

-----------------------------------------------------------------------------
(* Properties of the estimator (SpecEst) *)

\* the rule of C15 on a child count and a number of indicator terms present
DifficultyRule(childCount, hits) ==
    IF childCount >= 4 \/ hits >= 3 THEN "Hard"
    ELSE IF childCount >= 2 \/ hits >= 1 THEN "Medium"
    ELSE "Easy"

\* Easy < Medium < Hard
DifficultyRank(difficulty) ==
    IF difficulty = "Easy" THEN 1 ELSE IF difficulty = "Medium" THEN 2 ELSE 3

\* the indicator terms present in the lower-cased summary and description
IndicatorHits(input) ==
    {t \in Range(complexityIndicators) :
        includes(toLowerCase(input.summary \o " " \o input.description), t)}

\* C15: calculateDifficulty is Hard exactly when childCount >= 4 or at least
\* three distinct indicator terms are present, Medium exactly when it is not
\* Hard and childCount >= 2 or a term is present, and Easy otherwise; the
\* rule never lowers the result when the child count or the hits grow.
C15_DifficultyRule ==
    epc \in {"rated", "estimated"} =>
        LET hits == Cardinality(IndicatorHits(estInput))
            rank == DifficultyRank(estOutput.difficulty)
        IN  /\ estOutput.difficulty
                   = DifficultyRule(estInput.subtasksCount, hits)
            /\ \A n \in estInput.subtasksCount..(MaxChildCount + 1) :
                   \A h \in hits..Len(complexityIndicators) :
                       DifficultyRank(DifficultyRule(n, h)) >= rank

\* four children and no indicator term: Hard by the child count alone
C15_Witness ==
    /\ epc = "rated"
    /\ estInput.subtasksCount = 4
    /\ IndicatorHits(estInput) = {}
    /\ estOutput.difficulty = "Hard"

\* text ends with suffix
EndsWith(text, suffix) ==
    /\ Len(text) >= Len(suffix)
    /\ SubSeq(text, Len(text) - Len(suffix) + 1, Len(text)) = suffix

InDaysOrWeeks(estimate) ==
    /\ EndsWith(estimate, " days") \/ EndsWith(estimate, " week")
           \/ EndsWith(estimate, " weeks")
    /\ ~includes(estimate, "minute")
    /\ ~includes(estimate, "hour")

\* C16: a story rated Hard gets an estimate in days or weeks; the summary
\* "Implement authentication and database migration" with 4 subtasks is
\* rated Hard, its multiplier is 1 + 0.5 + 0.4 + 0.4 = 2.3 on the 28-hour
\* base (64.4 hours), and its estimate ends in a day or week unit.
C16_HardStoryInDaysOrWeeks ==
    (epc = "estimated" /\ estInput.type = "story") =>
        /\ estOutput.difficulty = "Hard" => InDaysOrWeeks(estOutput.estimatedTime)
        /\ (/\ estInput.summary
                   = "Implement authentication and database migration"
            /\ estInput.description = ""
            /\ estInput.subtasksCount = 4) =>
               LET f == factors(toLowerCase(estInput.summary \o " "))
               IN  /\ estOutput.difficulty = "Hard"
                   /\ f.migration /\ f.database /\ f.security
                   /\ complexityMultiplier(f, "Hard", 4).R = 80 + 40 + 32 + 32
                   /\ estimatedHours("Hard", "story", estInput.summary, "", 4).R
                          = 28 * (80 + 40 + 32 + 32)
                   /\ InDaysOrWeeks(estOutput.estimatedTime)

C16_Witness ==
    /\ epc = "estimated"
    /\ estInput.type = "story"
    /\ estInput.summary = "Implement authentication and database migration"
    /\ estInput.description = ""
    /\ estInput.subtasksCount = 4
    /\ estOutput = [difficulty |-> "Hard", estimatedTime |-> "2 weeks"]

-----------------------------------------------------------------------------
(* Properties of the description renderer (SpecAdf) *)

\* the positions of the newline characters of a text
NewlinePositions(text) == {i \in 1..Len(text) : CharAt(text, i) = Newline}

\* the k-th line of a text: what lies between the (k-1)-th and the k-th
\* newline character
LineOf(text, k) ==
    LET before == {i \in NewlinePositions(text) :
                       Cardinality({j \in NewlinePositions(text) : j <= i}) = k - 1}
        after == {i \in NewlinePositions(text) :
                      Cardinality({j \in NewlinePositions(text) : j <= i}) = k}
        from == IF before = {} THEN 1 ELSE (CHOOSE i \in before : TRUE) + 1
        to == IF after = {} THEN Len(text) ELSE (CHOOSE i \in after : TRUE) - 1
    IN  SubSeq(text, from, to)

\* the line a block was rendered from, for a line that is not blank
SourceOfBlock(block) ==
    LET node == block.content[1]
    IN  IF "marks" \notin DOMAIN node THEN node.text
        ELSE IF node.marks[1].type = "strong" THEN "*" \o node.text \o "*"
        ELSE node.text

\* C17: the document textToADF returns has as many paragraph blocks as the
\* text has newline-separated lines, blank ones included, and the k-th block
\* is the rendering of the k-th line: an empty paragraph for a blank line,
\* a paragraph with the line's text otherwise.
C17_OneBlockPerLineInOrder ==
    apc = "rendered" =>
        /\ Len(adfDoc.content) = Cardinality(NewlinePositions(adfText)) + 1
        /\ \A k \in 1..Len(adfDoc.content) :
              /\ adfDoc.content[k].type = "paragraph"
              /\ IF trim(LineOf(adfText, k)) = ""
                 THEN adfDoc.content[k].content = <<>>
                 ELSE /\ Len(adfDoc.content[k].content) = 1
                      /\ SourceOfBlock(adfDoc.content[k]) = LineOf(adfText, k)

\* a text with a blank line between two others, a bold line among them
C17_Witness ==
    /\ apc = "rendered"
    /\ adfText = "*a*" \o Newline \o Newline
    /\ Len(adfDoc.content) = 3
    /\ adfDoc.content[1].content[1].text = "a"
    /\ adfDoc.content[2].content = <<>>

=============================================================================
